---- MODULE Spec2Model ----
(***************************************************************************)
(* State-machine model of the callout-pip-alert backend and demo store:    *)
(* the incident HTTP handler, the game-mode handler, the SNS alarm          *)
(* ingestion handler, the DynamoDB-stream notifier and the mobile demo      *)
(* store.  A DynamoDB item is a function from attribute names to values, an *)
(* absent attribute is simply not in its DOMAIN; a table is a function from *)
(* keys to items.  Every DynamoDB command is one atomic step; a handler is  *)
(* a sequence of such steps, interleaved with those of other invocations.   *)
(***************************************************************************)
EXTENDS Integers, Sequences, FiniteSets, TLC

VARIABLES
  now,          \* Date.now(), in milliseconds
  incidents,    \* INCIDENTS_TABLE: incident_id -> item
  idSeq,        \* number of incident ids handed out so far (ulid / randomUUID)
  req,          \* invocations of the incidents HTTP handler
  scores,       \* SCORES_TABLE: user_id -> item (the session under GLOBAL_SESSION_KEY)
  greq,         \* invocations of the game HTTP handler
  crec,         \* a stream record handed to the notifier's classification
  cres,         \* what parseStateChange and buildNotification made of it
  devices,      \* DEVICES_TABLE: user_id -> its devices, in device_token order
  stream,       \* the invocation of the stream handler on a batch
  pushes,       \* the calls of sendPushNotification, in order
  teams,        \* TEAMS_TABLE: team_id -> item
  schedules,    \* SCHEDULES_TABLE: slot_id -> item
  sns,          \* the invocation of the SNS alarm handler on an event
  alarmLog,     \* what the alarm handler logged for each record, in order
  changes,      \* the stream of INCIDENTS_TABLE: change records and how many were delivered
  oncall        \* an on-call lookup of ingestion and an invocation of GET /schedules/current

httpState == <<req>>
gameState == <<scores, greq>>
classifyState == <<crec, cres>>
streamState == <<stream, pushes>>
alarmState == <<teams, schedules, sns, alarmLog>>
captureState == <<changes, oncall>>
vars == <<now, incidents, idSeq, devices, httpState, gameState, classifyState,
          streamState, alarmState, captureState>>

OutsideHttp == <<devices, gameState, classifyState, streamState, alarmState,
                 captureState>>
OutsideGame == <<devices, httpState, classifyState, streamState, alarmState,
                 captureState>>
OutsideClassify == <<devices, httpState, gameState, streamState, alarmState,
                     captureState>>
OutsideStream == <<httpState, gameState, classifyState, alarmState, captureState>>
OutsideAlarm == <<httpState, gameState, classifyState, streamState, captureState>>

\* the tables and invocations before anything has happened
Quiet(groups) ==
  /\ ("http" \in groups) => req = <<>>
  /\ ("game" \in groups) => scores = <<>> /\ greq = <<>>
  /\ ("classify" \in groups) => crec = <<>> /\ cres = <<>>
  /\ ("stream" \in groups) => stream = <<>> /\ pushes = <<>>
  /\ ("devices" \in groups) => devices = <<>>
  /\ ("alarm" \in groups) =>
       teams = <<>> /\ schedules = <<>> /\ sns = <<>> /\ alarmLog = <<>>
  /\ ("capture" \in groups) => changes = <<>>
  /\ ("oncall" \in groups) => oncall = <<>>

----------------------------------------------------------------------------
(* Bounds *)

MaxReqs == 2          \* invocations of the incidents handler
MaxIncidents == 2     \* incident ids that can be handed out
MaxGameReqs == 2      \* invocations of the game handler
MaxBatch == 2         \* records in one stream batch
MaxSnsRecords == 2    \* records in one SNS event

Instants == {1000, 2500, 4500, 61500, 64000}   \* the clock's readings
ShortInstants == {1000, 2500, 4500}            \* the readings within one minute
Users == {"alice", "bob"}
IncidentIds == 1..MaxIncidents
ReqIds == 1..MaxReqs
GameReqIds == 1..MaxGameReqs
Notes == {"fixed"}

----------------------------------------------------------------------------
(* DynamoDB items *)

Has(item, a) == a \in DOMAIN item

\* SET a = v on an item
SetAttr(item, a, v) == (a :> v) @@ item

\* SET timeline = :entry, the update that would replace the list
ListAppend_Overwrite(item, entry) == SetAttr(item, "timeline", <<entry>>)

\* list_append(timeline, :entry)
ListAppend(item, entry) == SetAttr(item, "timeline", Append(item.timeline, entry))

\* number of timeline entries of an item with the given event
RECURSIVE CountEvent(_, _)
CountEvent(tl, ev) ==
  IF tl = <<>> THEN 0
  ELSE (IF Head(tl).event = ev THEN 1 ELSE 0) + CountEvent(Tail(tl), ev)

----------------------------------------------------------------------------
(* The clock *)

Tick(readings) ==
  /\ \E t \in readings : t > now /\ now' = t
  /\ UNCHANGED <<incidents, idSeq, devices, httpState, gameState, classifyState,
               streamState, alarmState, captureState>>

----------------------------------------------------------------------------
(* alarm-handler.ts, the incident the SNS handler writes *)

NewIncident(team, name, sev, user, reason, t) ==
  [ team_id |-> team, alarm_name |-> name, state |-> "triggered",
    severity |-> sev, assigned_to |-> user, escalation_level |-> 0,
    triggered_at |-> t,
    timeline |-> << [timestamp |-> t, event |-> "triggered",
                     actor |-> "system", note |-> reason] >> ]

----------------------------------------------------------------------------
(* incidents.ts: the HTTP handler *)

IdleReq == [pc |-> "idle"]

\* the UpdateCommand of POST /incidents/{id}/ack
AckUpdateItem(item, user, t) ==
  ListAppend(SetAttr(SetAttr(item, "state", "acked"), "acked_at", t),
             [timestamp |-> t, event |-> "acked", actor |-> user])

\* the UpdateCommand of POST /incidents/{id}/resolve
ResolveUpdateItem(item, user, t, note) ==
  ListAppend(SetAttr(SetAttr(item, "state", "resolved"), "resolved_at", t),
             [timestamp |-> t, event |-> "resolved", actor |-> user, note |-> note])

\* the UpdateCommand of POST /incidents/{id}/reassign
ReassignUpdateItem(item, user, t, newUser) ==
  ListAppend(SetAttr(item, "assigned_to", newUser),
             [timestamp |-> t, event |-> "reassigned", actor |-> user,
              note |-> newUser])

\* list_append on a missing item or a missing timeline attribute is a
\* ValidationException: nothing is written and the handler's catch answers 500
CanUpdate(id) == id \in DOMAIN incidents /\ Has(incidents[id], "timeline")

ArrivedState(id) ==
  IF id \in DOMAIN incidents THEN incidents[id].state ELSE "missing"

\* lines 78-90, 112-126, 148-167: the route is matched, now and the timeline
\* entry are computed, the UpdateCommand is sent
Begin(r, op, id, user, arg) ==
  /\ req[r].pc = "idle"
  /\ \A q \in ReqIds : q < r => req[q].pc # "idle"
  /\ req' = [req EXCEPT ![r] =
       [pc |-> "update", op |-> op, id |-> id, user |-> user, ts |-> now,
        arg |-> arg, arrived |-> ArrivedState(id)]]
  /\ UNCHANGED <<now, incidents, idSeq, OutsideHttp>>

AckBegin(r, id, user) == Begin(r, "ack", id, user, "undefined")
ResolveBegin(r, id, user, note) == Begin(r, "resolve", id, user, note)
ReassignBegin(r, id, user, newUser) == Begin(r, "reassign", id, user, newUser)

Finish(r, status, body) ==
  req' = [req EXCEPT ![r] = ("pc" :> "done") @@ ("status" :> status)
                             @@ ("body" :> body) @@ req[r]]

Update(r, op, newItem) ==
  /\ req[r].pc = "update"
  /\ req[r].op = op
  /\ IF CanUpdate(req[r].id)
     THEN /\ incidents' = [incidents EXCEPT ![req[r].id] = newItem]
          /\ Finish(r, 200, "incident")
     ELSE /\ UNCHANGED incidents
          /\ Finish(r, 500, "Internal server error")
  /\ UNCHANGED <<now, idSeq, OutsideHttp>>

\* lines 92-109
AckUpdate(r) ==
  Update(r, "ack", AckUpdateItem(incidents[req[r].id], req[r].user, req[r].ts))

\* lines 128-145
ResolveUpdate(r) ==
  Update(r, "resolve",
         ResolveUpdateItem(incidents[req[r].id], req[r].user, req[r].ts, req[r].arg))

\* lines 169-182
ReassignUpdate(r) ==
  Update(r, "reassign",
         ReassignUpdateItem(incidents[req[r].id], req[r].user, req[r].ts, req[r].arg))

\* POST /incidents/{id}/unack is routed to this handler (app-stack) but no
\* branch of the handler matches it: line 185 answers 404
UnackRoute(r, id, user) ==
  /\ req[r].pc = "idle"
  /\ \A q \in ReqIds : q < r => req[q].pc # "idle"
  /\ req' = [req EXCEPT ![r] =
       [pc |-> "done", op |-> "unack", id |-> id, user |-> user, ts |-> now,
        arg |-> "undefined", arrived |-> ArrivedState(id),
        status |-> 404, body |-> "Not found"]]
  /\ UNCHANGED <<now, incidents, idSeq, OutsideHttp>>

----------------------------------------------------------------------------
(* The incident handler serving requests on incidents written by ingestion *)

InitIncidents ==
  /\ now = 1000
  /\ idSeq = 1
  /\ \E u \in Users :
       incidents = (1 :> NewIncident("T1", "cpu", "info", u, "threshold", 1000))
  /\ req = [r \in ReqIds |-> IdleReq]
  /\ Quiet({"game", "classify", "stream", "devices", "alarm", "capture", "oncall"})

NextIncidents ==
  \/ Tick(ShortInstants)
  \/ \E r \in ReqIds, id \in IncidentIds, u \in Users : AckBegin(r, id, u)
  \/ \E r \in ReqIds : AckUpdate(r)
  \/ \E r \in ReqIds, id \in IncidentIds, u \in Users, n \in Notes :
       ResolveBegin(r, id, u, n)
  \/ \E r \in ReqIds : ResolveUpdate(r)
  \/ \E r \in ReqIds, id \in IncidentIds, u, v \in Users : ReassignBegin(r, id, u, v)
  \/ \E r \in ReqIds : ReassignUpdate(r)
  \/ \E r \in ReqIds, id \in IncidentIds, u \in Users : UnackRoute(r, id, u)

SpecIncidents == InitIncidents /\ [][NextIncidents]_vars

----------------------------------------------------------------------------
(* Claims about the incident handler *)

\* the handler invocations that have been issued against incident id
IssuedOn(id) == {r \in ReqIds : req[r].pc # "idle" /\ req[r].id = id}

\* incident id was triggered when each of N >= 2 ack requests arrived, nothing
\* but these acks was issued against it, and all of them have been answered
AckRaceOver(id) ==
  /\ Cardinality(IssuedOn(id)) >= 2
  /\ \A r \in IssuedOn(id) :
       req[r].op = "ack" /\ req[r].arrived = "triggered" /\ req[r].pc = "done"

\* C1: of N >= 2 concurrent acks of a triggered incident exactly one is
\* answered with success and every other one with a conflict (409); the
\* incident ends acked with exactly one 'acked' timeline entry.
C1_ExactlyOneAckWins ==
  \A id \in DOMAIN incidents :
    AckRaceOver(id) =>
      /\ Cardinality({r \in IssuedOn(id) : req[r].status = 200}) = 1
      /\ \A r \in IssuedOn(id) : req[r].status \in {200, 409}
      /\ incidents[id].state = "acked"
      /\ CountEvent(incidents[id].timeline, "acked") = 1

\* the step in which invocation r of the given route is answered
Answers(r, op) ==
  /\ req[r].pc # "done"
  /\ req'[r].pc = "done"
  /\ req'[r].op = op

\* C2: an ack of an incident that is acked or resolved is answered with a
\* conflict (409) and leaves the item (state, acked_at, timeline) unchanged.
C2_AckOfHandledIncidentConflicts ==
  [][\A r \in ReqIds :
       ( /\ Answers(r, "ack")
         /\ req'[r].id \in DOMAIN incidents
         /\ incidents[req'[r].id].state \in {"acked", "resolved"} )
       => (req'[r].status = 409 /\ incidents' = incidents)]_vars

\* C3: the timeline of an incident never holds more than one 'resolved' entry.
C3_AtMostOneResolvedEntry ==
  \A id \in DOMAIN incidents :
    Has(incidents[id], "timeline") =>
      CountEvent(incidents[id].timeline, "resolved") <= 1

\* C8: POST /incidents/{id}/unack of an acked incident sets state to
\* triggered, removes acked_at and appends one 'unacknowledged' entry to the
\* otherwise unchanged timeline; in any other state it changes nothing.
C8_UnackReopensAckedIncident ==
  [][\A r \in ReqIds :
       (Answers(r, "unack") /\ req'[r].id \in DOMAIN incidents)
       => LET old == incidents[req'[r].id]
              new == incidents'[req'[r].id]
          IN  IF old.state = "acked"
              THEN /\ new.state = "triggered"
                   /\ ~Has(new, "acked_at")
                   /\ Len(new.timeline) = Len(old.timeline) + 1
                   /\ SubSeq(new.timeline, 1, Len(old.timeline)) = old.timeline
                   /\ new.timeline[Len(new.timeline)].event = "unacknowledged"
              ELSE incidents' = incidents]_vars

----------------------------------------------------------------------------
(* alarm-handler.ts, game mode: settings and pure helpers *)

ROUND_DURATION_MS == 60000
GLOBAL_SESSION_KEY == "GLOBAL_SESSION"

\* bodies of POST /game/trigger: length of body.title after trim(), body.severity
TriggerBodies ==
  { [title |-> 8, severity |-> "undefined"], [title |-> 8, severity |-> "critical"],
    [title |-> 0, severity |-> "undefined"], [title |-> 51, severity |-> "undefined"] }

\* userId.split("@")[0]
LocalPart(userId) ==
  CASE userId = "bob@example.com" -> "bob"
    [] OTHER -> userId

\* body.display_name || userId.split("@")[0]
DisplayName(bodyName, userId) ==
  IF bodyName \notin {"undefined", ""} THEN bodyName ELSE LocalPart(userId)

\* body.severity || "warning"
SeverityOf(bodySeverity) ==
  IF bodySeverity \in {"undefined", ""} THEN "warning" ELSE bodySeverity

\* SEVERITIES[severity] || 2
Multiplier(severity) ==
  CASE severity = "info" -> 1
    [] severity = "warning" -> 2
    [] severity = "critical" -> 3
    [] OTHER -> 2

\* the bonus with the thresholds included in the faster band
SpeedBonusTimes2_Inclusive(ackTime) ==
  IF ackTime <= 2000 THEN 4 ELSE IF ackTime <= 4000 THEN 3 ELSE 2

\* lines 528-530; the products 10 * m * bonus are whole numbers, Math.round
\* leaves them as they are
SpeedBonusTimes2(ackTime) ==
  IF ackTime < 2000 THEN 4 ELSE IF ackTime < 4000 THEN 3 ELSE 2

Points(item, t) ==
  LET m == IF Has(item, "point_multiplier") /\ item.point_multiplier # 0
           THEN item.point_multiplier ELSE 1
  IN  (10 * m * SpeedBonusTimes2(t - item.created_at)) \div 2

\* the item POST /game/start puts
SessionItem(endsAt, t, name) ==
  [ game_type |-> "session", session_ends_at |-> endsAt, started_at |-> t,
    started_by |-> name ]

\* the item without its game flag
GameIncident_Unflagged(severity, userId, name, t) ==
  [ alarm_name |-> "[GAME] title", severity |-> severity, state |-> "triggered",
    team_id |-> "game", triggered_by |-> userId, triggered_by_name |-> name,
    created_at |-> t, point_multiplier |-> Multiplier(severity) ]

\* the item POST /game/trigger puts
GameIncident(severity, userId, name, t) ==
  [ alarm_name |-> "[GAME] title", severity |-> severity, state |-> "triggered",
    team_id |-> "game", triggered_by |-> userId, triggered_by_name |-> name,
    created_at |-> t, game |-> TRUE, point_multiplier |-> Multiplier(severity) ]

\* result.Item of a GetCommand on the session key: the item, if it carries a
\* truthy session_ends_at
HasSessionEnd ==
  /\ GLOBAL_SESSION_KEY \in DOMAIN scores
  /\ Has(scores[GLOBAL_SESSION_KEY], "session_ends_at")
  /\ scores[GLOBAL_SESSION_KEY].session_ends_at # 0

getGlobalSession ==
  IF ~HasSessionEnd THEN [active |-> FALSE]
  ELSE IF now > scores[GLOBAL_SESSION_KEY].session_ends_at THEN [active |-> FALSE]
  ELSE [ active |-> TRUE,
         endsAt |-> scores[GLOBAL_SESSION_KEY].session_ends_at,
         startedBy |-> scores[GLOBAL_SESSION_KEY].started_by ]

\* DeleteCommand
DeleteKey(table, key) == [k \in DOMAIN table \ {key} |-> table[k]]

\* Scan with FilterExpression "game = :game"
GameIncidentIds ==
  {id \in DOMAIN incidents : Has(incidents[id], "game") /\ incidents[id].game = TRUE}

\* the update with SET total_points = :points in place of the addition
ScoreUpdateItem_Overwrite(item, name, points) ==
  [ display_name |-> IF Has(item, "display_name") THEN item.display_name ELSE name,
    game_type |-> "default",
    high_score |-> IF Has(item, "high_score") THEN item.high_score ELSE 0,
    total_points |-> points,
    total_acks |-> (IF Has(item, "total_acks") THEN item.total_acks ELSE 0) + 1 ]

\* the UpdateCommand of the score, lines 562-581
ScoreUpdateItem(item, name, points) ==
  [ display_name |-> IF Has(item, "display_name") THEN item.display_name ELSE name,
    game_type |-> "default",
    high_score |-> IF Has(item, "high_score") THEN item.high_score ELSE 0,
    total_points |-> (IF Has(item, "total_points") THEN item.total_points ELSE 0) + points,
    total_acks |-> (IF Has(item, "total_acks") THEN item.total_acks ELSE 0) + 1 ]

----------------------------------------------------------------------------
(* alarm-handler.ts, game mode: the HTTP handler *)

GFinish(g, status, body) ==
  greq' = [greq EXCEPT ![g] =
    [pc |-> "done", op |-> greq[g].op, user |-> greq[g].user, id |-> greq[g].id,
     at |-> greq[g].pc, status |-> status, body |-> body]]

GGoto(g, pc) == greq' = [greq EXCEPT ![g] = ("pc" :> pc) @@ greq[g]]

\* lines 332-355: the request arrives and the handler reads the session
Arrive(g, op, user, id, title, sev) ==
  /\ greq[g].pc = "idle"
  /\ \A q \in GameReqIds : q < g => greq[q].pc # "idle"
  /\ greq' = [greq EXCEPT ![g] =
       [pc |-> IF getGlobalSession.active THEN "route" ELSE "raw",
        op |-> op, user |-> user, id |-> id, title |-> title, sev |-> sev,
        ctx |-> "gate"]]
  /\ UNCHANGED <<now, incidents, idSeq, scores, OutsideGame>>

StartArrive(g, user) == Arrive(g, "start", user, 0, 0, "undefined")
EndArrive(g, user) == Arrive(g, "end", user, 0, 0, "undefined")
TriggerArrive(g, user, body) ==
  Arrive(g, "trigger", user, 0, body.title, body.severity)
GameAckArrive(g, user, id) == Arrive(g, "ack", user, id, 0, "undefined")

\* lines 356-365: the session record is read again; one that carries an end
\* time is cleaned up
GateRaw(g) ==
  /\ greq[g].pc = "raw"
  /\ GGoto(g, IF HasSessionEnd THEN "endDelete" ELSE "route")
  /\ UNCHANGED <<now, incidents, idSeq, scores, OutsideGame>>

\* endGlobalSession, lines 318-323
EndDelete(g) ==
  /\ greq[g].pc = "endDelete"
  /\ scores' = DeleteKey(scores, GLOBAL_SESSION_KEY)
  /\ GGoto(g, "scan")
  /\ UNCHANGED <<now, incidents, idSeq, OutsideGame>>

\* what follows endGlobalSession: the response of POST /game/end, or the
\* routes after the auto-cleanup
AfterEnd(g, deleted) ==
  IF greq[g].ctx = "end"
  THEN GFinish(g, 200, [message |-> "Game ended", incidents_deleted |-> deleted])
  ELSE GGoto(g, "route")

\* cleanupGameIncidents, lines 293-302
CleanupScan(g) ==
  /\ greq[g].pc = "scan"
  /\ IF GameIncidentIds = {}
     THEN AfterEnd(g, 0)
     ELSE greq' = [greq EXCEPT ![g] = ("pc" :> "delete") @@ ("items" :> GameIncidentIds)
                                       @@ ("deleted" :> Cardinality(GameIncidentIds))
                                       @@ greq[g]]
  /\ UNCHANGED <<now, incidents, idSeq, scores, OutsideGame>>

\* cleanupGameIncidents, lines 303-312: one DeleteCommand of the loop
CleanupDelete(g) ==
  /\ greq[g].pc = "delete"
  /\ \E id \in greq[g].items :
       /\ incidents' = DeleteKey(incidents, id)
       /\ IF greq[g].items = {id}
          THEN AfterEnd(g, greq[g].deleted)
          ELSE greq' = [greq EXCEPT ![g].items = @ \ {id}]
  /\ UNCHANGED <<now, idSeq, scores, OutsideGame>>

\* POST /game/start, lines 369-383
StartCheck(g) ==
  /\ greq[g].pc = "route"
  /\ greq[g].op = "start"
  /\ IF getGlobalSession.active
     THEN GFinish(g, 400, [error |-> "Game already in progress",
                           ends_at |-> getGlobalSession.endsAt,
                           started_by |-> getGlobalSession.startedBy])
     ELSE greq' = [greq EXCEPT ![g] = ("pc" :> "startPut") @@ ("ts" :> now) @@ greq[g]]
  /\ UNCHANGED <<now, incidents, idSeq, scores, OutsideGame>>

\* POST /game/start, lines 385-402
StartPut(g) ==
  /\ greq[g].pc = "startPut"
  /\ LET name == DisplayName("undefined", greq[g].user)
         endsAt == greq[g].ts + ROUND_DURATION_MS
     IN  /\ scores' = (GLOBAL_SESSION_KEY :> SessionItem(endsAt, greq[g].ts, name)) @@ scores
         /\ GFinish(g, 200, [ends_at |-> endsAt, duration_ms |-> ROUND_DURATION_MS,
                             started_by |-> name])
  /\ UNCHANGED <<now, incidents, idSeq, OutsideGame>>

\* POST /game/end, lines 406-412
EndCheck(g) ==
  /\ greq[g].pc = "route"
  /\ greq[g].op = "end"
  /\ IF getGlobalSession.active
     THEN greq' = [greq EXCEPT ![g] = ("pc" :> "endDelete") @@ ("ctx" :> "end") @@ greq[g]]
     ELSE GFinish(g, 400, [error |-> "No active game"])
  /\ UNCHANGED <<now, incidents, idSeq, scores, OutsideGame>>

\* POST /game/trigger, lines 436-457
TriggerCheck(g) ==
  /\ greq[g].pc = "route"
  /\ greq[g].op = "trigger"
  /\ IF ~getGlobalSession.active
       THEN GFinish(g, 400, [error |-> "No active game. Start a game first!"])
     ELSE IF greq[g].title = 0
       THEN GFinish(g, 400, [error |-> "Title is required"])
     ELSE IF greq[g].title > 50
       THEN GFinish(g, 400, [error |-> "Title too long (max 50 chars)"])
     ELSE greq' = [greq EXCEPT ![g] = ("pc" :> "triggerPut") @@ ("ts" :> now) @@ greq[g]]
  /\ UNCHANGED <<now, incidents, idSeq, scores, OutsideGame>>

\* POST /game/trigger, lines 459-484
TriggerPut(g) ==
  /\ greq[g].pc = "triggerPut"
  /\ idSeq < MaxIncidents
  /\ idSeq' = idSeq + 1
  /\ incidents' = (idSeq' :> GameIncident(SeverityOf(greq[g].sev), greq[g].user,
                                          DisplayName("undefined", greq[g].user),
                                          greq[g].ts)) @@ incidents
  /\ greq' = [greq EXCEPT ![g] =
       [pc |-> "done", op |-> "trigger", user |-> greq[g].user, id |-> idSeq',
        at |-> "triggerPut", status |-> 200, body |-> [incident_id |-> idSeq']]]
  /\ UNCHANGED <<now, scores, OutsideGame>>

\* POST /game/ack/{id}, lines 488-492
GameAckCheck(g) ==
  /\ greq[g].pc = "route"
  /\ greq[g].op = "ack"
  /\ IF getGlobalSession.active
     THEN GGoto(g, "ackGet")
     ELSE GFinish(g, 400, [error |-> "No active game"])
  /\ UNCHANGED <<now, incidents, idSeq, scores, OutsideGame>>

TooSlow == [success |-> FALSE, points |-> 0]

\* POST /game/ack/{id}, lines 502-530
GameAckGet(g) ==
  /\ greq[g].pc = "ackGet"
  /\ IF greq[g].id \notin DOMAIN incidents
       THEN GFinish(g, 404, [error |-> "Incident not found"])
     ELSE IF ~(Has(incidents[greq[g].id], "game") /\ incidents[greq[g].id].game)
       THEN GFinish(g, 400, [error |-> "Not a game incident"])
     ELSE IF incidents[greq[g].id].state # "triggered"
       THEN GFinish(g, 200, TooSlow)
     ELSE greq' = [greq EXCEPT ![g] = ("pc" :> "ackUpdate") @@ ("ts" :> now)
                     @@ ("points" :> Points(incidents[greq[g].id], now)) @@ greq[g]]
  /\ UNCHANGED <<now, incidents, idSeq, scores, OutsideGame>>

\* the game ack without its ConditionExpression
GameAckCondition_Unconditional(id) == id \in DOMAIN incidents

\* ConditionExpression "#state = :triggered"
GameAckCondition(id) ==
  /\ id \in DOMAIN incidents
  /\ Has(incidents[id], "state")
  /\ incidents[id].state = "triggered"

\* the UpdateCommand of lines 534-549
GameAckUpdateItem(item, userId, name, t) ==
  SetAttr(SetAttr(SetAttr(SetAttr(item, "state", "acked"), "acked_by", userId),
                  "acked_by_name", name), "acked_at", t)

\* POST /game/ack/{id}, lines 532-559
GameAckUpdate(g) ==
  /\ greq[g].pc = "ackUpdate"
  /\ IF GameAckCondition(greq[g].id)
     THEN /\ incidents' = [incidents EXCEPT ![greq[g].id] =
               GameAckUpdateItem(@, greq[g].user,
                                 DisplayName("undefined", greq[g].user), greq[g].ts)]
          /\ GGoto(g, "ackScore")
     ELSE /\ UNCHANGED incidents
          /\ GFinish(g, 200, TooSlow)
  /\ UNCHANGED <<now, idSeq, scores, OutsideGame>>

\* POST /game/ack/{id}, lines 561-588
GameAckScore(g) ==
  /\ greq[g].pc = "ackScore"
  /\ LET old == IF greq[g].user \in DOMAIN scores THEN scores[greq[g].user] ELSE <<>>
     IN  scores' = (greq[g].user :>
                      ScoreUpdateItem(old, DisplayName("undefined", greq[g].user),
                                      greq[g].points)) @@ scores
  /\ GFinish(g, 200, [success |-> TRUE, points |-> greq[g].points])
  /\ UNCHANGED <<now, incidents, idSeq, OutsideGame>>

----------------------------------------------------------------------------
(* The game handler, from empty tables or from a round with one alarm *)

GameUsers == {"alice", "bob@example.com"}
GameInstants == {1000, 61500}

InitGame ==
  /\ now = 1000
  /\ greq = [g \in GameReqIds |-> IdleReq]
  /\ Quiet({"http", "classify", "stream", "devices", "alarm", "capture", "oncall"})
  /\ \/ /\ scores = <<>>
        /\ incidents = <<>>
        /\ idSeq = 0
     \/ /\ scores = (GLOBAL_SESSION_KEY :>
                       SessionItem(1000 + ROUND_DURATION_MS, 1000, "alice"))
        /\ incidents = (1 :> GameIncident("warning", "alice", "alice", 1000))
        /\ idSeq = 1

NextGame ==
  \/ Tick(GameInstants)
  \/ \E g \in GameReqIds, u \in GameUsers : StartArrive(g, u)
  \/ \E g \in GameReqIds : EndArrive(g, "alice")
  \/ \E g \in GameReqIds, b \in TriggerBodies : TriggerArrive(g, "alice", b)
  \/ \E g \in GameReqIds, u \in GameUsers, id \in IncidentIds : GameAckArrive(g, u, id)
  \/ \E g \in GameReqIds : GateRaw(g)
  \/ \E g \in GameReqIds : EndDelete(g)
  \/ \E g \in GameReqIds : CleanupScan(g)
  \/ \E g \in GameReqIds : CleanupDelete(g)
  \/ \E g \in GameReqIds : StartCheck(g)
  \/ \E g \in GameReqIds : StartPut(g)
  \/ \E g \in GameReqIds : EndCheck(g)
  \/ \E g \in GameReqIds : TriggerCheck(g)
  \/ \E g \in GameReqIds : TriggerPut(g)
  \/ \E g \in GameReqIds : GameAckCheck(g)
  \/ \E g \in GameReqIds : GameAckGet(g)
  \/ \E g \in GameReqIds : GameAckUpdate(g)
  \/ \E g \in GameReqIds : GameAckScore(g)

SpecGame == InitGame /\ [][NextGame]_vars

----------------------------------------------------------------------------
(* Claims about the game handler *)

\* the answered POST /game/ack/{id} requests that found game incident id
\* during an active session: answered by the state check of line 519, or
\* after sending the conditional update
GameAcksOf(id) ==
  {g \in GameReqIds :
     /\ greq[g].pc = "done" /\ greq[g].op = "ack" /\ greq[g].id = id
     /\ \/ greq[g].at \in {"ackUpdate", "ackScore"}
        \/ greq[g].at = "ackGet" /\ greq[g].status = 200}

GameAckPending(id) ==
  \E g \in GameReqIds :
    greq[g].pc \notin {"idle", "done"} /\ greq[g].op = "ack" /\ greq[g].id = id

Won(g) == greq[g].body.success /\ greq[g].body.points > 0

\* C4: when two (or more) POST /game/ack/{id} requests on a triggered game
\* incident have been answered during an active session, exactly one of them
\* got {success: true, points > 0}, every other one got {success: false,
\* points: 0}, all with status 200, and the incident is acked with acked_by
\* the winner.
C4_GameAckRaceHasOneWinner ==
  \A id \in DOMAIN incidents :
    (Cardinality(GameAcksOf(id)) >= 2 /\ ~GameAckPending(id)) =>
      /\ \A g \in GameAcksOf(id) :
           /\ greq[g].status = 200
           /\ Won(g) \/ greq[g].body = TooSlow
      /\ \E w \in GameAcksOf(id) :
           /\ Won(w)
           /\ \A g \in GameAcksOf(id) \ {w} : greq[g].body = TooSlow
           /\ incidents[id].state = "acked"
           /\ incidents[id].acked_by = greq[w].user

\* two acks that both passed the state check and raced on the conditional
\* update, one winning and one losing
C4_Witness ==
  \E id \in DOMAIN incidents : \E w, l \in GameAcksOf(id) :
    /\ greq[w].at = "ackScore" /\ Won(w)
    /\ greq[l].at = "ackUpdate" /\ greq[l].body = TooSlow
    /\ greq[w].user # greq[l].user

\* C5: POST /game/start succeeds only when no session is active, so a
\* successful start never replaces the record of a session that is active.
C5_StartOnlyWhenNoSessionActive ==
  [][\A g \in GameReqIds :
       (greq[g].pc = "startPut" /\ greq'[g].pc = "done" /\ greq'[g].status = 200)
       => ~getGlobalSession.active]_vars

GameQuiescent == \A g \in GameReqIds : greq[g].pc \in {"idle", "done"}

\* C9: when no session record is left (the session was ended or cleaned up)
\* and no game request is in flight, the incident store holds no game-flagged
\* incident.
C9_NoGameIncidentAfterEnd ==
  (GameQuiescent /\ GLOBAL_SESSION_KEY \notin DOMAIN scores) => GameIncidentIds = {}

----------------------------------------------------------------------------
(* incident-streams.ts: classification of a stream record *)

States == {"triggered", "acked", "resolved"}
Severities == {"critical", "warning", "info"}
EventNames == {"INSERT", "MODIFY", "REMOVE"}

NoChange == [type |-> "null"]
NoNotification == [title |-> <<"null">>]
Threw == [title |-> <<"TypeError">>]

\* lines 63-108
parseStateChange(record) ==
  IF ~Has(record, "dynamodb") THEN NoChange
  ELSE LET hasNew == Has(record.dynamodb, "NewImage")
           hasOld == Has(record.dynamodb, "OldImage")
           newImage == record.dynamodb.NewImage
           oldImage == record.dynamodb.OldImage
       IN  IF record.eventName = "INSERT" /\ hasNew
             THEN [type |-> "INSERT", newState |-> newImage.state, incident |-> newImage]
           ELSE IF record.eventName = "MODIFY" /\ hasNew /\ hasOld
             THEN IF oldImage.state = newImage.state THEN NoChange
                  ELSE [type |-> "MODIFY", oldState |-> oldImage.state,
                        newState |-> newImage.state, incident |-> newImage,
                        oldIncident |-> oldImage]
           ELSE IF record.eventName = "REMOVE" /\ hasOld
             THEN [type |-> "REMOVE", oldState |-> oldImage.state, incident |-> oldImage]
           ELSE NoChange

\* String.prototype.toUpperCase on the severities
ToUpperCase(severity) ==
  CASE severity = "critical" -> "CRITICAL"
    [] severity = "warning" -> "WARNING"
    [] severity = "info" -> "INFO"
    [] OTHER -> severity

\* line 112
SeverityEmoji(incident) ==
  IF Has(incident, "severity") /\ incident.severity = "critical" THEN "red"
  ELSE IF Has(incident, "severity") /\ incident.severity = "warning" THEN "yellow"
  ELSE "green"

\* sound and interruptionLevel of lines 119-120 and 151-152
AlarmSound(incident) ==
  IF incident.severity = "critical" THEN "critical_alarm.caf" ELSE "default"
AlarmLevel(incident) ==
  IF incident.severity = "critical" THEN "critical" ELSE "time-sensitive"

\* incident.timeline[0]?.note || "New alarm triggered"
FirstNote(incident) ==
  IF incident.timeline # <<>> /\ Has(incident.timeline[1], "note")
     /\ incident.timeline[1].note \notin {"undefined", ""}
  THEN incident.timeline[1].note
  ELSE "New alarm triggered"

\* lines 110-158; reading [0] of a missing timeline, or toUpperCase of a
\* missing severity, raises a TypeError
buildNotification(change) ==
  LET incident == change.incident IN
  IF change.type = "INSERT" /\ change.newState = "triggered"
    THEN IF ~Has(incident, "severity") \/ ~Has(incident, "timeline") THEN Threw
         ELSE [ title |-> <<SeverityEmoji(incident), ToUpperCase(incident.severity),
                            incident.alarm_name>>,
                body |-> FirstNote(incident),
                sound |-> AlarmSound(incident),
                interruptionLevel |-> AlarmLevel(incident) ]
  ELSE IF change.type = "MODIFY" /\ change.oldState = "triggered"
          /\ change.newState = "acked"
    THEN [ title |-> <<"Acknowledged", incident.alarm_name>>,
           body |-> <<"Acked by",
                      IF Has(incident, "acked_by") /\ incident.acked_by # ""
                      THEN incident.acked_by ELSE "teammate">>,
           sound |-> "default", interruptionLevel |-> "active" ]
  ELSE IF change.type = "MODIFY" /\ change.oldState = "acked"
          /\ change.newState = "resolved"
    THEN [ title |-> <<"Resolved", incident.alarm_name>>,
           body |-> "Incident has been resolved",
           sound |-> "default", interruptionLevel |-> "passive" ]
  ELSE IF change.type = "MODIFY" /\ change.oldState = "acked"
          /\ change.newState = "triggered"
    THEN [ title |-> <<"Unacked", incident.alarm_name>>,
           body |-> "Incident requires attention again",
           sound |-> AlarmSound(incident),
           interruptionLevel |-> AlarmLevel(incident) ]
  ELSE NoNotification

\* lines 24-31 of the handler: the notification of a record, if any
Notification(record) ==
  IF parseStateChange(record) = NoChange THEN NoNotification
  ELSE buildNotification(parseStateChange(record))

\* the stored item in each state it can have been left in by the handlers
AlarmImage(severity, state) ==
  LET t == NewIncident("T1", "cpu", severity, "alice", "threshold", 1000)
  IN  CASE state = "triggered" -> t
        [] state = "acked" -> AckUpdateItem(t, "bob@example.com", 2500)
        [] state = "resolved" ->
             ResolveUpdateItem(AckUpdateItem(t, "bob@example.com", 2500),
                               "alice", 4500, "fixed")

GameImage(severity, state) ==
  LET t == GameIncident(severity, "alice", "alice", 1000)
  IN  CASE state = "triggered" -> t
        [] state = "acked" -> GameAckUpdateItem(t, "bob@example.com", "bob", 2500)

Images ==
  [ alarm |-> [sv \in Severities |-> {AlarmImage(sv, st) : st \in States}],
    game |-> [sv \in Severities |-> {GameImage(sv, st) : st \in {"triggered", "acked"}}] ]

\* a DynamoDB stream record with the images it carries
StreamRecord(eventName, olds, news) ==
  [ eventName |-> eventName,
    dynamodb |-> [k \in {"OldImage" : x \in olds} \cup {"NewImage" : x \in news} |->
                    IF k = "OldImage" THEN CHOOSE x \in olds : TRUE
                    ELSE CHOOSE x \in news : TRUE] ]

AtMostOne(S) == {{}} \cup {{x} : x \in S}

ClassifyRecords ==
  {[eventName |-> e] : e \in EventNames} \cup
  UNION { UNION { { StreamRecord(e, o, n) :
                      e \in EventNames,
                      o \in AtMostOne(Images[kind][sv]),
                      n \in AtMostOne(Images[kind][sv]) }
                  : sv \in Severities }
          : kind \in {"alarm", "game"} }

Classify ==
  /\ cres = <<>>
  /\ cres' = <<Notification(crec)>>
  /\ UNCHANGED <<now, incidents, idSeq, crec, OutsideClassify>>

InitClassify ==
  /\ now = 1000
  /\ incidents = <<>>
  /\ idSeq = 0
  /\ Quiet({"http", "game", "stream", "devices", "alarm", "capture", "oncall"})
  /\ crec \in ClassifyRecords
  /\ cres = <<>>

NextClassify == Classify

SpecClassify == InitClassify /\ [][NextClassify]_vars

----------------------------------------------------------------------------
(* Claims about the classification *)

OldStateIs(record, st) ==
  Has(record.dynamodb, "OldImage") /\ record.dynamodb.OldImage.state = st
NewStateIs(record, st) ==
  Has(record.dynamodb, "NewImage") /\ record.dynamodb.NewImage.state = st

\* the table of spec 4.3
IsNewIncident(record) ==
  Has(record, "dynamodb") /\ record.eventName = "INSERT" /\ NewStateIs(record, "triggered")
IsTransition(record, from, to) ==
  /\ Has(record, "dynamodb") /\ record.eventName = "MODIFY"
  /\ OldStateIs(record, from) /\ NewStateIs(record, to)

\* C7: INSERT in state triggered gives the new-incident notification (with
\* the critical sound and interruption level for severity critical), MODIFY
\* triggered->acked the acknowledged one, acked->resolved the passive
\* resolved one, acked->triggered the unacked one, and every other record
\* gives no notification.
C7_ClassificationTable ==
  cres # <<>> =>
    LET n == cres[1]
        image == crec.dynamodb.NewImage
    IN  IF IsNewIncident(crec)
          THEN /\ n.title = <<SeverityEmoji(image), ToUpperCase(image.severity),
                              image.alarm_name>>
               /\ image.severity = "critical" =>
                    n.sound = "critical_alarm.caf" /\ n.interruptionLevel = "critical"
               /\ image.severity # "critical" =>
                    n.sound = "default" /\ n.interruptionLevel = "time-sensitive"
        ELSE IF IsTransition(crec, "triggered", "acked")
          THEN n.title[1] = "Acknowledged" /\ n.interruptionLevel = "active"
        ELSE IF IsTransition(crec, "acked", "resolved")
          THEN n.title[1] = "Resolved" /\ n.interruptionLevel = "passive"
        ELSE IF IsTransition(crec, "acked", "triggered")
          THEN n.title[1] = "Unacked"
        ELSE n = NoNotification

----------------------------------------------------------------------------
(* incident-streams.ts: the handler on a batch of stream records *)

retryAttempts == 3

\* Query of DEVICES_TABLE by user_id
getUserDevices(userId) ==
  IF userId \in DOMAIN devices THEN devices[userId] ELSE <<>>

\* Scan of INCIDENTS_TABLE, "assigned_to = :uid AND #state = :state", COUNT
getUnackedIncidentCount(userId) ==
  Cardinality({id \in DOMAIN incidents :
                 /\ Has(incidents[id], "assigned_to")
                 /\ incidents[id].assigned_to = userId
                 /\ incidents[id].state = "triggered"})

\* the changes the handlers commit to one incident written by ingestion, and
\* the insert of a game incident
StreamRecords ==
  { StreamRecord("INSERT", {}, {AlarmImage("critical", "triggered")}),
    StreamRecord("MODIFY", {AlarmImage("critical", "triggered")},
                           {AlarmImage("critical", "acked")}),
    StreamRecord("MODIFY", {AlarmImage("critical", "triggered")},
                           {ReassignUpdateItem(AlarmImage("critical", "triggered"),
                                               "alice", 2500, "alice")}),
    StreamRecord("INSERT", {}, {GameImage("warning", "triggered")}) }

Batches == UNION {[1..n -> StreamRecords] : n \in 1..MaxBatch}

DeviceTables ==
  { <<>>,
    [alice |-> << [device_token |-> "d1", platform |-> "ios"],
                  [device_token |-> "d2", platform |-> "ios"] >>] }

\* the handler returns instead of going on with the loop
NextRecord_Return == [pc |-> "done", batch |-> stream.batch,
                      deliveries |-> stream.deliveries]

\* the loop moves on to the next record
NextRecord == [pc |-> "record", batch |-> stream.batch, idx |-> stream.idx + 1,
               deliveries |-> stream.deliveries]

\* the event source hands a batch to the handler
StreamInvoke(batch) ==
  /\ stream.pc = "idle"
  /\ stream' = [pc |-> "record", batch |-> batch, idx |-> 1, deliveries |-> 1]
  /\ UNCHANGED <<now, incidents, idSeq, devices, pushes, OutsideStream>>

\* lines 22-38: the record is classified and the assignee's devices are read;
\* a TypeError, or a Query for an undefined assigned_to, is caught at line 57
StreamRecordStep ==
  /\ stream.pc = "record"
  /\ stream.idx <= Len(stream.batch)
  /\ LET record == stream.batch[stream.idx]
         change == parseStateChange(record)
         n == Notification(record)
     IN  IF n \in {NoNotification, Threw} \/ ~Has(change.incident, "assigned_to")
           THEN stream' = NextRecord
         ELSE IF getUserDevices(change.incident.assigned_to) = <<>>
           THEN stream' = NextRecord
         ELSE stream' = [pc |-> "badge", batch |-> stream.batch, idx |-> stream.idx,
                         deliveries |-> stream.deliveries, notification |-> n,
                         incident |-> change.incident,
                         devs |-> getUserDevices(change.incident.assigned_to)]
  /\ UNCHANGED <<now, incidents, idSeq, devices, pushes, OutsideStream>>

\* lines 40-42
StreamBadge ==
  /\ stream.pc = "badge"
  /\ stream' = ("pc" :> "send")
                 @@ ("badge" :> getUnackedIncidentCount(stream.incident.assigned_to))
                 @@ stream
  /\ UNCHANGED <<now, incidents, idSeq, devices, pushes, OutsideStream>>

\* lines 45-55: one turn of the device loop
StreamSend ==
  /\ stream.pc = "send"
  /\ pushes' = Append(pushes,
       [ device_token |-> Head(stream.devs).device_token, record |-> stream.idx,
         title |-> stream.notification.title, body |-> stream.notification.body,
         sound |-> stream.notification.sound,
         interruptionLevel |-> stream.notification.interruptionLevel,
         badge |-> stream.badge, state |-> stream.incident.state,
         incident_id |-> IF Has(stream.incident, "incident_id")
                         THEN stream.incident.incident_id ELSE "undefined" ])
  /\ IF Tail(stream.devs) = <<>>
     THEN stream' = NextRecord
     ELSE stream' = [stream EXCEPT !.devs = Tail(@)]
  /\ UNCHANGED <<now, incidents, idSeq, devices, OutsideStream>>

\* line 61: the loop is over, the invocation succeeds
StreamReturn ==
  /\ stream.pc = "record"
  /\ stream.idx > Len(stream.batch)
  /\ stream' = [pc |-> "done", batch |-> stream.batch, deliveries |-> stream.deliveries]
  /\ UNCHANGED <<now, incidents, idSeq, devices, pushes, OutsideStream>>

\* the invocation does not complete (the 30 s timeout of the function); the
\* DynamoEventSource delivers the same batch again, retryAttempts times at most
StreamRetry ==
  /\ stream.pc \in {"record", "badge", "send"}
  /\ stream.deliveries <= retryAttempts
  /\ stream' = [pc |-> "record", batch |-> stream.batch, idx |-> 1,
                deliveries |-> stream.deliveries + 1]
  /\ UNCHANGED <<now, incidents, idSeq, devices, pushes, OutsideStream>>

InitStream ==
  /\ now = 2500
  /\ idSeq = 1
  /\ \E st \in {"triggered", "acked"} :
       incidents = (1 :> AlarmImage("critical", st))
  /\ devices \in DeviceTables
  /\ stream = [pc |-> "idle"]
  /\ pushes = <<>>
  /\ Quiet({"http", "game", "classify", "alarm", "capture", "oncall"})

NextStream ==
  \/ \E batch \in Batches : StreamInvoke(batch)
  \/ StreamRecordStep
  \/ StreamBadge
  \/ StreamSend
  \/ StreamReturn
  \/ StreamRetry

SpecStream == InitStream /\ [][NextStream]_vars

----------------------------------------------------------------------------
(* Claims about the stream handler *)

PushesFor(record, token) ==
  {k \in DOMAIN pushes : pushes[k].record = record /\ pushes[k].device_token = token}

\* C6: however often a change record is delivered, each device receives at
\* most one push for it.
C6_OnePushPerChangeAndDevice ==
  \A record \in 1..MaxBatch :
    \A k \in DOMAIN pushes : Cardinality(PushesFor(record, pushes[k].device_token)) <= 1

\* the record is the change POST /incidents/{id}/ack makes to a triggered
\* incident, requested by somebody other than its assignee
AckedByOther(record) ==
  /\ IsTransition(record, "triggered", "acked")
  /\ LET new == record.dynamodb.NewImage
     IN  /\ Has(new, "timeline")
         /\ new.timeline[Len(new.timeline)].event = "acked"
         /\ new.timeline[Len(new.timeline)].actor # new.assigned_to

\* C14: the push for an acknowledgement made through POST /incidents/{id}/ack
\* by somebody other than the assignee goes to a device of the assignee and
\* its body names the responder who acknowledged.
C14_AckPushNamesAcker ==
  \A k \in DOMAIN pushes :
    LET record == stream.batch[pushes[k].record]
        new == record.dynamodb.NewImage
    IN  AckedByOther(record) =>
          /\ \E d \in DOMAIN getUserDevices(new.assigned_to) :
               getUserDevices(new.assigned_to)[d].device_token = pushes[k].device_token
          /\ pushes[k].body = <<"Acked by", new.timeline[Len(new.timeline)].actor>>

----------------------------------------------------------------------------
(* alarm-handler.ts: the SNS alarm ingestion handler *)

\* String.prototype.toLowerCase, on the characters alarm names are made of
ToLowerCase(c) ==
  CASE c = "A" -> "a" [] c = "C" -> "c" [] c = "D" -> "d" [] c = "E" -> "e"
    [] c = "I" -> "i" [] c = "N" -> "n" [] c = "O" -> "o" [] c = "P" -> "p"
    [] c = "R" -> "r" [] c = "U" -> "u" [] c = "W" -> "w" [] OTHER -> c

Lower(name) == [k \in DOMAIN name |-> ToLowerCase(name[k])]

\* String.prototype.includes
Includes(name, part) ==
  \E k \in 0..(Len(name) - Len(part)) :
    \A j \in 1..Len(part) : name[k + j] = part[j]

determineSeverity(alarmName) ==
  LET lowerName == Lower(alarmName)
  IN  IF \/ Includes(lowerName, <<"c","r","i","t","i","c","a","l">>)
         \/ Includes(lowerName, <<"e","r","r","o","r">>)
        THEN "critical"
      ELSE IF \/ Includes(lowerName, <<"w","a","r","n","i","n","g">>)
              \/ Includes(lowerName, <<"w","a","r","n">>)
        THEN "warning"
      ELSE "info"

\* the teams the Scan "contains(aws_account_ids, :accountId)" matches
findTeamByAwsAccount(accountId) ==
  {t \in DOMAIN teams : accountId \in teams[t].aws_account_ids}

\* FilterExpression "#start <= :now AND #end > :now"
Covers_Closed(slot, t) == slot.start <= t /\ slot.end >= t
Covers(slot, t) == slot.start <= t /\ slot.end > t

\* the Query of SCHEDULES_TABLE by team_id with the filter; Items[0] is the
\* match with the least sort key slot_id
findOnCallUser(teamId, t) ==
  LET items == {k \in DOMAIN schedules :
                  schedules[k].team_id = teamId /\ Covers(schedules[k], t)}
  IN  IF items = {} THEN "null"
      ELSE schedules[CHOOSE k \in items : \A j \in items : k <= j].user_id

Message(state, account, name) ==
  [ NewStateValue |-> state, AWSAccountId |-> account, AlarmName |-> name,
    NewStateReason |-> "threshold" ]

AlarmMessages ==
  { Message("ALARM", "111", <<"A","P","I","-","E","r","r","o","r">>),
    Message("ALARM", "222", <<"c","p","u">>),
    Message("ALARM", "999", <<"D","i","s","k","-","W","A","R","N">>),
    Message("OK", "111", <<"c","p","u">>),
    Message("INSUFFICIENT_DATA", "222", <<"c","p","u">>) }

SnsEvents == UNION {[1..n -> AlarmMessages] : n \in 1..MaxSnsRecords}

\* POST /teams stores whatever aws_account_ids the caller lists
TeamTables ==
  { <<>>,
    [T1 |-> [team_id |-> "T1", aws_account_ids |-> {"111"}],
     T2 |-> [team_id |-> "T2", aws_account_ids |-> {"222"}]],
    [T1 |-> [team_id |-> "T1", aws_account_ids |-> {"111"}],
     T2 |-> [team_id |-> "T2", aws_account_ids |-> {"111", "222"}]] }

\* POST /schedules/{team_id} stores slots with a user_id and start < end
Slot(team, k, user, start, end) ==
  [team_id |-> team, slot_id |-> k, user_id |-> user, start |-> start, end |-> end]

SlotPool ==
  { Slot("T1", 1, "alice", 1000, 2500),
    Slot("T1", 2, "bob", 2500, 4500),
    Slot("T2", 3, "bob", 1000, 4500) }

ScheduleTables ==
  { [k \in {s.slot_id : s \in slots} |-> CHOOSE s \in slots : s.slot_id = k] :
      slots \in SUBSET SlotPool }

\* one line of the handler's log for the record it is working on
Logged(line, extra) ==
  Append(alarmLog, ("record" :> sns.idx) @@ ("line" :> line) @@ ("at" :> now) @@ extra)

\* "continue": the loop moves on to the next record
Continue == [pc |-> "record", records |-> sns.records, idx |-> sns.idx + 1]

AlarmInvoke(event) ==
  /\ sns.pc = "idle"
  /\ sns' = [pc |-> "record", records |-> event, idx |-> 1]
  /\ UNCHANGED <<now, incidents, idSeq, devices, teams, schedules, alarmLog,
                 OutsideAlarm>>

\* lines 24-32
AlarmRecord ==
  /\ sns.pc = "record"
  /\ sns.idx <= Len(sns.records)
  /\ LET message == sns.records[sns.idx]
     IN  IF message.NewStateValue # "ALARM"
         THEN /\ alarmLog' = Logged("Ignoring alarm state", <<>>)
              /\ sns' = Continue
         ELSE /\ alarmLog' = alarmLog
              /\ sns' = [pc |-> "team", records |-> sns.records, idx |-> sns.idx,
                         message |-> message]
  /\ UNCHANGED <<now, incidents, idSeq, devices, teams, schedules, OutsideAlarm>>

\* lines 35-39; the Scan returns the matching teams in an order of its own,
\* Items[0] is any of them
AlarmFindTeam ==
  /\ sns.pc = "team"
  /\ LET items == findTeamByAwsAccount(sns.message.AWSAccountId)
     IN  IF items = {}
         THEN /\ alarmLog' = Logged("No team found", <<>>)
              /\ sns' = Continue
         ELSE /\ alarmLog' = alarmLog
              /\ \E t \in items :
                   sns' = ("pc" :> "oncall") @@ ("team" :> teams[t]) @@ sns
  /\ UNCHANGED <<now, incidents, idSeq, devices, teams, schedules, OutsideAlarm>>

\* lines 42-47
AlarmFindOnCall ==
  /\ sns.pc = "oncall"
  /\ LET onCallUserId == findOnCallUser(sns.team.team_id, now)
     IN  IF onCallUserId = "null"
         THEN /\ alarmLog' = Logged("No on-call user", [team_id |-> sns.team.team_id])
              /\ sns' = Continue
         ELSE /\ alarmLog' = alarmLog
              /\ sns' = ("pc" :> "put") @@ ("onCallUserId" :> onCallUserId)
                          @@ ("resolvedAt" :> now) @@ sns
  /\ UNCHANGED <<now, incidents, idSeq, devices, teams, schedules, OutsideAlarm>>

\* lines 50-78
AlarmPut ==
  /\ sns.pc = "put"
  /\ idSeq < MaxIncidents
  /\ idSeq' = idSeq + 1
  /\ incidents' = ((idSeq + 1) :>
                     NewIncident(sns.team.team_id, sns.message.AlarmName,
                                 determineSeverity(sns.message.AlarmName),
                                 sns.onCallUserId, sns.message.NewStateReason, now))
                    @@ incidents
  /\ alarmLog' = Append(alarmLog,
                   [record |-> sns.idx, line |-> "Created incident", at |-> sns.resolvedAt,
                    team_id |-> sns.team.team_id, incident_id |-> idSeq + 1])
  /\ sns' = ("pc" :> "devices") @@ ("incident_id" :> (idSeq + 1)) @@ sns
  /\ UNCHANGED <<now, devices, teams, schedules, OutsideAlarm>>

\* line 81
AlarmDevices ==
  /\ sns.pc = "devices"
  /\ IF getUserDevices(sns.onCallUserId) = <<>>
     THEN sns' = Continue
     ELSE sns' = ("pc" :> "push") @@ ("devs" :> getUserDevices(sns.onCallUserId)) @@ sns
  /\ UNCHANGED <<now, incidents, idSeq, devices, teams, schedules, alarmLog,
                 OutsideAlarm>>

\* lines 82-84 and 152-173: sendPushNotification only logs
AlarmPush ==
  /\ sns.pc = "push"
  /\ alarmLog' = Logged("Would send push",
                        [device_token |-> Head(sns.devs).device_token,
                         incident_id |-> sns.incident_id])
  /\ IF Tail(sns.devs) = <<>>
     THEN sns' = Continue
     ELSE sns' = [sns EXCEPT !.devs = Tail(@)]
  /\ UNCHANGED <<now, incidents, idSeq, devices, teams, schedules, OutsideAlarm>>

\* line 91
AlarmReturn ==
  /\ sns.pc = "record"
  /\ sns.idx > Len(sns.records)
  /\ sns' = [pc |-> "done", records |-> sns.records]
  /\ UNCHANGED <<now, incidents, idSeq, devices, teams, schedules, alarmLog,
                 OutsideAlarm>>

InitAlarm ==
  /\ now = 1000
  /\ idSeq = 0
  /\ incidents = <<>>
  /\ devices \in DeviceTables
  /\ teams \in TeamTables
  /\ schedules \in ScheduleTables
  /\ sns = [pc |-> "idle"]
  /\ alarmLog = <<>>
  /\ Quiet({"http", "game", "classify", "stream", "capture", "oncall"})

NextAlarm ==
  \/ Tick(ShortInstants)
  \/ \E event \in SnsEvents : AlarmInvoke(event)
  \/ AlarmRecord
  \/ AlarmFindTeam
  \/ AlarmFindOnCall
  \/ AlarmPut
  \/ AlarmDevices
  \/ AlarmPush
  \/ AlarmReturn

SpecAlarm == InitAlarm /\ [][NextAlarm]_vars

----------------------------------------------------------------------------
(* Claims about alarm ingestion *)

\* the log lines that settle what becomes of a record
Outcomes ==
  {k \in DOMAIN alarmLog :
     alarmLog[k].line \in {"Ignoring alarm state", "No team found",
                           "No on-call user", "Created incident"}}

Created == {k \in Outcomes : alarmLog[k].line = "Created incident"}

Owners(account) == {t \in DOMAIN teams : account \in teams[t].aws_account_ids}

\* the slots of a team whose window [start, end) holds the instant t
CoveringSlots(team, t) ==
  {k \in DOMAIN schedules :
     /\ schedules[k].team_id = team
     /\ schedules[k].start <= t
     /\ t < schedules[k].end}

\* the incident of a "Created incident" line is triggered, belongs to a team
\* that owns the account and is assigned to the responder of a slot of that
\* team covering the time of the lookup
WrittenAsResolved(e) ==
  LET i == incidents[e.incident_id]
  IN  /\ i.state = "triggered"
      /\ i.team_id \in Owners(sns.records[e.record].AWSAccountId)
      /\ \E k \in CoveringSlots(i.team_id, e.at) : i.assigned_to = schedules[k].user_id

\* C10 (as stated): an incident is written for a record if and only if its
\* new state is ALARM, some team owns its account id and a slot of that team
\* covers the current time; it is triggered and assigned to that slot's
\* responder; in every other case nothing is written.
C10_IncidentIffAlarmOwnedAndCovered ==
  /\ \A k \in Outcomes :
       LET e == alarmLog[k]
           m == sns.records[e.record]
       IN  /\ (e.line = "Created incident") <=>
                 /\ m.NewStateValue = "ALARM"
                 /\ \E t \in Owners(m.AWSAccountId) : CoveringSlots(t, e.at) # {}
           /\ (e.line = "Created incident") => WrittenAsResolved(e)
  /\ Cardinality(DOMAIN incidents) = Cardinality(Created)

\* C10 (amended): an incident is written for a record if and only if its new
\* state is ALARM, some team owns its account id and a slot of the team the
\* lookup returned (any one of the owners when several teams list the
\* account) covers the current time; it is triggered and assigned to that
\* slot's responder; in every other case nothing is written.
C10_IncidentIffAlarmResolvedTeamCovered ==
  /\ \A k \in Outcomes :
       LET e == alarmLog[k]
           m == sns.records[e.record]
       IN  /\ (e.line = "Ignoring alarm state") <=> (m.NewStateValue # "ALARM")
           /\ (e.line = "No team found") <=>
                 (m.NewStateValue = "ALARM" /\ Owners(m.AWSAccountId) = {})
           /\ (e.line \in {"No on-call user", "Created incident"}) =>
                 e.team_id \in Owners(m.AWSAccountId)
           /\ (e.line = "No on-call user") => CoveringSlots(e.team_id, e.at) = {}
           /\ (e.line = "Created incident") =>
                 /\ CoveringSlots(e.team_id, e.at) # {}
                 /\ incidents[e.incident_id].team_id = e.team_id
                 /\ WrittenAsResolved(e)
  /\ Cardinality(DOMAIN incidents) = Cardinality(Created)

\* one record of the event became an incident for bob and another was
\* dropped for want of an on-call responder
C10_Witness ==
  \E k \in Created : \E j \in Outcomes :
    /\ alarmLog[j].line = "No on-call user"
    /\ incidents[alarmLog[k].incident_id].assigned_to = "bob"

----------------------------------------------------------------------------
(* app-stack: alarm ingestion, the stream of INCIDENTS_TABLE (NEW_AND_OLD_IMAGES)
   and the DynamoEventSource that feeds the stream handler *)

\* the stored item as the stream shows it, its key included
Image(id) == SetAttr(incidents[id], "incident_id", id)

NoChanges == [records |-> <<>>, delivered |-> 0]

\* the stream makes the next write of the ingestion handler visible: items
\* are only ever inserted here, in the order of their ids
Capture ==
  /\ Len(changes.records) < idSeq
  /\ changes' = [changes EXCEPT !.records =
                   Append(@, StreamRecord("INSERT", {}, {Image(Len(@) + 1)}))]
  /\ UNCHANGED oncall
  /\ UNCHANGED <<now, incidents, idSeq, devices, httpState, gameState, classifyState,
                 streamState, alarmState>>

\* the event source hands the next n undelivered records to the handler, once
\* the invocation on the batch before has returned
Poll(n) ==
  /\ stream.pc \in {"idle", "done"}
  /\ changes.delivered + n <= Len(changes.records)
  /\ stream' = [pc |-> "record", idx |-> 1, deliveries |-> 1,
                batch |-> SubSeq(changes.records, changes.delivered + 1,
                                 changes.delivered + n)]
  /\ changes' = [changes EXCEPT !.delivered = @ + n]
  /\ UNCHANGED oncall
  /\ UNCHANGED <<now, incidents, idSeq, devices, pushes, httpState, gameState,
                 classifyState, alarmState>>

InitPipeline ==
  /\ now = 1000
  /\ idSeq = 0
  /\ incidents = <<>>
  /\ devices \in DeviceTables
  /\ teams = [T1 |-> [team_id |-> "T1", aws_account_ids |-> {"111"}],
              T2 |-> [team_id |-> "T2", aws_account_ids |-> {"222"}]]
  /\ schedules \in {sc \in ScheduleTables : 1 \in DOMAIN sc}
  /\ sns = [pc |-> "idle"]
  /\ alarmLog = <<>>
  /\ stream = [pc |-> "idle"]
  /\ pushes = <<>>
  /\ changes = NoChanges
  /\ Quiet({"http", "game", "classify", "oncall"})

NextPipeline ==
  \/ \E event \in SnsEvents : AlarmInvoke(event)
  \/ AlarmRecord
  \/ AlarmFindTeam
  \/ AlarmFindOnCall
  \/ AlarmPut
  \/ AlarmDevices
  \/ AlarmPush
  \/ AlarmReturn
  \/ Capture
  \/ \E n \in 1..MaxBatch : Poll(n)
  \/ StreamRecordStep
  \/ StreamBadge
  \/ StreamSend
  \/ StreamReturn
  \/ StreamRetry

SpecPipeline == InitPipeline /\ [][NextPipeline]_vars

----------------------------------------------------------------------------
(* Claims about ingestion and notification together *)

\* the push attempts for an incident on a device.  The sendPushNotification
\* of alarm-handler.ts only writes a log line, so every attempt is one of the
\* stream handler
PushAttempts(id, token) ==
  {k \in DOMAIN pushes : pushes[k].incident_id = id /\ pushes[k].device_token = token}

\* the change record of incident id has been delivered and the invocation it
\* was handed to has returned
Notified(id) ==
  \/ id <= changes.delivered - (IF stream.pc = "idle" THEN 0 ELSE Len(stream.batch))
  \/ id <= changes.delivered /\ stream.pc = "done"

\* C11: an incident created by an alarm gives rise to exactly one push attempt
\* per registered device of its assignee (never more than one, and one once
\* its change record has been handled).
C11_OnePushAttemptPerDevice ==
  \A id \in DOMAIN incidents :
    \A k \in DOMAIN getUserDevices(incidents[id].assigned_to) :
      LET token == getUserDevices(incidents[id].assigned_to)[k].device_token
      IN  /\ Cardinality(PushAttempts(id, token)) <= 1
          /\ Notified(id) => Cardinality(PushAttempts(id, token)) = 1

----------------------------------------------------------------------------
(* On-call resolution: findOnCallUser of alarm-handler.ts and
   GET /schedules/current of schedules.ts *)

\* schedules.ts line 41, FilterExpression "#start <= :now AND #end > :now"
CurrentCovers_Closed(slot, t) == slot.start <= t /\ slot.end >= t
CurrentCovers(slot, t) == slot.start <= t /\ slot.end > t

\* the null that line 56 stores for a team without a current slot
NoSlot == [user_id |-> "null"]

\* lines 37-56: Items[0] of the team's slots that pass the filter, in
\* slot_id order, or null
currentSlot(teamId, t) ==
  LET items == {k \in DOMAIN schedules :
                  schedules[k].team_id = teamId /\ CurrentCovers(schedules[k], t)}
  IN  IF items = {} THEN NoSlot
      ELSE LET slot == schedules[CHOOSE k \in items : \A j \in items : k <= j]
           IN  [user_id |-> slot.user_id, slot |-> slot]

OnCallInstants == {500, 1000, 2500, 4500, 6000, 7000}

\* slots (t1, t2, userA) and (t2, t3, userB) of team T1, created in either order
AdjacentSlots ==
  { (ka :> Slot("T1", ka, a, t1, t2)) @@ (kb :> Slot("T1", kb, b, t2, t3)) :
      ka \in {1, 2}, kb \in {1, 2}, a \in Users, b \in Users,
      t1 \in {1000, 2500}, t2 \in {2500, 4500}, t3 \in {4500, 6000} }

TwoSlotTables ==
  {sc \in AdjacentSlots :
     /\ DOMAIN sc = {1, 2}
     /\ \A k \in {1, 2} : sc[k].start < sc[k].end}

\* the team_ids of the caller's record in USERS_TABLE
TeamIdLists == {<<>>, <<"T1">>, <<"T2", "T1">>}

\* alarm-handler.ts line 42, for an alarm of team T1's account
IngestionLookup ==
  /\ ~Has(oncall, "resolved")
  /\ oncall' = ("resolved" :> [at |-> now, user |-> findOnCallUser("T1", now)]) @@ oncall
  /\ UNCHANGED <<now, incidents, idSeq, devices, changes, httpState, gameState,
                 classifyState, streamState, alarmState>>

\* schedules.ts lines 21-34
CurrentBegin ==
  /\ oncall.pc = "idle"
  /\ oncall' = ("pc" :> "loop") @@ ("at" :> now) @@ ("rest" :> oncall.team_ids)
                 @@ ("on_call" :> <<>>) @@ oncall
  /\ UNCHANGED <<now, incidents, idSeq, devices, changes, httpState, gameState,
                 classifyState, streamState, alarmState>>

\* lines 36-57: one turn of the loop over the caller's teams
CurrentQuery ==
  /\ oncall.pc = "loop"
  /\ oncall.rest # <<>>
  /\ oncall' = [oncall EXCEPT
       !.rest = Tail(@),
       !.on_call = (Head(oncall.rest) :> currentSlot(Head(oncall.rest), oncall.at)) @@ @]
  /\ UNCHANGED <<now, incidents, idSeq, devices, changes, httpState, gameState,
                 classifyState, streamState, alarmState>>

\* line 59
CurrentReturn ==
  /\ oncall.pc = "loop"
  /\ oncall.rest = <<>>
  /\ oncall' = [oncall EXCEPT !.pc = "done"]
  /\ UNCHANGED <<now, incidents, idSeq, devices, changes, httpState, gameState,
                 classifyState, streamState, alarmState>>

InitOnCall ==
  /\ now \in OnCallInstants
  /\ idSeq = 0
  /\ incidents = <<>>
  /\ teams = <<>>
  /\ schedules \in TwoSlotTables
  /\ sns = <<>>
  /\ alarmLog = <<>>
  /\ \E ids \in TeamIdLists : oncall = [pc |-> "idle", team_ids |-> ids]
  /\ Quiet({"http", "game", "classify", "stream", "devices", "capture"})

NextOnCall ==
  \/ Tick(OnCallInstants)
  \/ IngestionLookup
  \/ CurrentBegin
  \/ CurrentQuery
  \/ CurrentReturn

SpecOnCall == InitOnCall /\ [][NextOnCall]_vars

----------------------------------------------------------------------------
(* Claims about on-call resolution *)

\* the responder the half-open rule names for team T1 at instant t: userA for
\* t1 <= t < t2, userB for t2 <= t < t3, nobody before t1 and from t3 on
HalfOpenResponder(t) ==
  LET first == CHOOSE k \in DOMAIN schedules :
                 \A j \in DOMAIN schedules : schedules[k].start <= schedules[j].start
      second == CHOOSE k \in DOMAIN schedules : k # first
  IN  IF schedules[first].start <= t /\ t < schedules[first].end
        THEN schedules[first].user_id
      ELSE IF schedules[second].start <= t /\ t < schedules[second].end
        THEN schedules[second].user_id
      ELSE "null"

\* C12: with slots (t1,t2,userA) and (t2,t3,userB), on-call resolution at t
\* gives userA for t1 <= t < t2, userB for t2 <= t < t3 and nobody otherwise,
\* in alarm ingestion and in GET /schedules/current alike.
C12_HalfOpenWindows ==
  /\ Has(oncall, "resolved") =>
       oncall.resolved.user = HalfOpenResponder(oncall.resolved.at)
  /\ (oncall.pc = "done" /\ "T1" \in DOMAIN oncall.on_call) =>
       IF HalfOpenResponder(oncall.at) = "null"
       THEN oncall.on_call["T1"] = NoSlot
       ELSE /\ Has(oncall.on_call["T1"], "slot")
            /\ oncall.on_call["T1"].user_id = HalfOpenResponder(oncall.at)

\* both lookups were made on the boundary t2, where userB has taken over
C12_Witness ==
  /\ Has(oncall, "resolved")
  /\ oncall.pc = "done"
  /\ "T1" \in DOMAIN oncall.on_call
  /\ oncall.at = oncall.resolved.at
  /\ \E k, j \in DOMAIN schedules :
       /\ schedules[k].end = oncall.at
       /\ schedules[j].start = oncall.at
       /\ schedules[k].user_id # schedules[j].user_id
       /\ oncall.resolved.user = schedules[j].user_id

----------------------------------------------------------------------------
(* The incident handler over a store that holds an ingested incident, in any
   of its states, and an incident written by POST /game/trigger *)

InitStore ==
  /\ idSeq = 2
  /\ \E st \in States :
       /\ incidents = (1 :> AlarmImage("critical", st))
                        @@ (2 :> GameImage("warning", "triggered"))
       /\ now = (CASE st = "triggered" -> 1000 [] st = "acked" -> 2500
                   [] st = "resolved" -> 4500)
  /\ req = [r \in ReqIds |-> IdleReq]
  /\ Quiet({"game", "classify", "stream", "devices", "alarm", "capture", "oncall"})

SpecStore == InitStore /\ [][NextIncidents]_vars

\* the attribute is absent before and after, or present with the same value
SameAttr(old, new, a) ==
  /\ Has(old, a) <=> Has(new, a)
  /\ Has(old, a) => old[a] = new[a]

\* C13: reassign, whatever the state of the incident, sets assigned_to to the
\* new responder, appends exactly one 'reassigned' entry to the timeline and
\* leaves state, acked_at, resolved_at and the earlier entries as they were.
C13_ReassignFrame ==
  [][\A r \in ReqIds :
       (Answers(r, "reassign") /\ req'[r].id \in DOMAIN incidents)
       => LET old == incidents[req'[r].id]
              new == incidents'[req'[r].id]
          IN  /\ Has(new, "assigned_to") /\ new.assigned_to = req'[r].arg
              /\ Has(new, "timeline")
              /\ Len(new.timeline) = (IF Has(old, "timeline") THEN Len(old.timeline) ELSE 0) + 1
              /\ Has(old, "timeline") =>
                   SubSeq(new.timeline, 1, Len(old.timeline)) = old.timeline
              /\ new.timeline[Len(new.timeline)].event = "reassigned"
              /\ SameAttr(old, new, "state")
              /\ SameAttr(old, new, "acked_at")
              /\ SameAttr(old, new, "resolved_at")]_vars

----------------------------------------------------------------------------
(* A round of the game: start, trigger and end requests of one player, from
   empty tables *)

RoundReqIds == {1, 2, 3}

InitRound ==
  /\ now = 1000
  /\ idSeq = 0
  /\ incidents = <<>>
  /\ scores = <<>>
  /\ greq = [g \in RoundReqIds |-> IdleReq]
  /\ Quiet({"http", "classify", "stream", "devices", "alarm", "capture", "oncall"})

NextRound ==
  \/ Tick(GameInstants)
  \/ \E g \in RoundReqIds : StartArrive(g, "alice")
  \/ \E g \in RoundReqIds : EndArrive(g, "alice")
  \/ \E g \in RoundReqIds, b \in TriggerBodies : TriggerArrive(g, "alice", b)
  \/ \E g \in RoundReqIds : GateRaw(g)
  \/ \E g \in RoundReqIds : EndDelete(g)
  \/ \E g \in RoundReqIds : CleanupScan(g)
  \/ \E g \in RoundReqIds : CleanupDelete(g)
  \/ \E g \in RoundReqIds : StartCheck(g)
  \/ \E g \in RoundReqIds : StartPut(g)
  \/ \E g \in RoundReqIds : EndCheck(g)
  \/ \E g \in RoundReqIds : TriggerCheck(g)
  \/ \E g \in RoundReqIds : TriggerPut(g)

SpecRound == InitRound /\ [][NextRound]_vars

----------------------------------------------------------------------------
(* Claims about a round *)

\* request g passes from one position of the handler to the next in this step
Leaves(g, op, pc) == greq[g].pc = pc /\ greq[g].op = op /\ greq'[g].pc # pc

NoActiveGame(g) ==
  /\ greq'[g].pc = "done"
  /\ greq'[g].status = 400
  /\ greq'[g].body = [error |-> "No active game. Start a game first!"]
  /\ incidents' = incidents

ValidTitle(g) == greq[g].title >= 1 /\ greq[g].title <= 50

\* the session check of a start that finds no active session lets it through,
\* and the start is answered 200 with ends_at 60000 ms after its start time
StartSucceeds(g) ==
  /\ (Leaves(g, "start", "route") /\ ~getGlobalSession.active) =>
        (greq'[g].pc = "startPut" /\ greq'[g].ts = now)
  /\ Leaves(g, "start", "startPut") =>
        /\ greq'[g].pc = "done" /\ greq'[g].status = 200
        /\ greq'[g].body.ends_at = greq[g].ts + 60000

\* the Put of a trigger answers 200 and adds exactly one incident, flagged as
\* a game incident and in state triggered
TriggerWritesOne(g) ==
  Leaves(g, "trigger", "triggerPut") =>
    /\ greq'[g].pc = "done" /\ greq'[g].status = 200
    /\ \E id \in DOMAIN incidents' \ DOMAIN incidents :
         /\ DOMAIN incidents' = DOMAIN incidents \cup {id}
         /\ \A j \in DOMAIN incidents : incidents'[j] = incidents[j]
         /\ Has(incidents'[id], "game") /\ incidents'[id].game = TRUE
         /\ incidents'[id].state = "triggered"

\* some POST /game/start was answered 200 with an ends_at that lies ahead
StartedAndBeforeEnd ==
  \E h \in DOMAIN greq :
    /\ greq[h].pc = "done" /\ greq[h].op = "start" /\ greq[h].status = 200
    /\ now < greq[h].body.ends_at

\* C15 (as stated): a trigger that finds no active session is rejected with
\* 'no active game' and writes nothing; a start that finds no active session
\* succeeds with ends_at = start time + 60000; every trigger with a title of
\* 1..50 characters handled before the ends_at of a successful start succeeds
\* and writes exactly one game-flagged incident in state triggered.
C15_TriggerSucceedsBeforeEndsAt ==
  [][\A g \in DOMAIN greq :
       /\ (Leaves(g, "trigger", "route") /\ ~getGlobalSession.active) => NoActiveGame(g)
       /\ StartSucceeds(g)
       /\ (Leaves(g, "trigger", "route") /\ ValidTitle(g) /\ StartedAndBeforeEnd) =>
            greq'[g].pc = "triggerPut"
       /\ TriggerWritesOne(g)]_vars

\* C15 (amended): as above, but the triggers that succeed are those handled
\* while the session is still active: its record has not been deleted by an
\* early end and its end time has not passed.
C15_TriggerSucceedsWhileActive ==
  [][\A g \in DOMAIN greq :
       /\ (Leaves(g, "trigger", "route") /\ ~getGlobalSession.active) => NoActiveGame(g)
       /\ StartSucceeds(g)
       /\ (Leaves(g, "trigger", "route") /\ ValidTitle(g) /\ getGlobalSession.active) =>
            greq'[g].pc = "triggerPut"
       /\ TriggerWritesOne(g)]_vars

\* a trigger was rejected for want of a session, a start then succeeded and a
\* later trigger wrote its incident
C15_Witness ==
  \E a, b, c \in DOMAIN greq :
    /\ greq[a].pc = "done" /\ greq[a].op = "trigger" /\ greq[a].status = 400
    /\ greq[a].body = [error |-> "No active game. Start a game first!"]
    /\ greq[b].pc = "done" /\ greq[b].op = "start" /\ greq[b].status = 200
    /\ greq[c].pc = "done" /\ greq[c].op = "trigger" /\ greq[c].status = 200
    /\ a < b /\ b < c
    /\ greq[c].id \in DOMAIN incidents

----------------------------------------------------------------------------
(* alarm-handler.ts, game mode: GET /game/leaderboard during a round in which
   players acknowledge game incidents *)

LeaderboardLimit == 20

\* the items of SCORES_TABLE in the partition game_type = "default" of the
\* leaderboard-index (partition key game_type, sort key high_score)
IndexedPlayers ==
  {u \in DOMAIN scores :
     /\ Has(scores[u], "game_type") /\ scores[u].game_type = "default"
     /\ Has(scores[u], "high_score")}

\* the orders in which a Query with ScanIndexForward: false can return them:
\* descending in the sort key high_score, items with equal keys in any order
IndexOrders ==
  {order \in [1..Cardinality(IndexedPlayers) -> IndexedPlayers] :
     /\ \A i, j \in DOMAIN order : i # j => order[i] # order[j]
     /\ \A i, j \in DOMAIN order :
          i < j => scores[order[i]].high_score >= scores[order[j]].high_score}

\* lines 620-626 and 636-643: what the response shows of a score item
BoardEntry(u, item) ==
  [ user_id |-> u,
    display_name |-> IF Has(item, "display_name") /\ item.display_name # ""
                     THEN item.display_name ELSE LocalPart(u),
    total_points |-> IF Has(item, "total_points") THEN item.total_points ELSE 0,
    total_acks |-> IF Has(item, "total_acks") THEN item.total_acks ELSE 0 ]

LeaderboardArrive(g, user) == Arrive(g, "leaderboard", user, 0, 0, "undefined")

\* lines 610-626: the Query of the index, the first LeaderboardLimit items
LeaderboardQuery(g) ==
  /\ greq[g].pc = "route"
  /\ greq[g].op = "leaderboard"
  /\ \E order \in IndexOrders :
       LET n == IF Len(order) < LeaderboardLimit THEN Len(order) ELSE LeaderboardLimit
       IN  greq' = [greq EXCEPT ![g] =
             ("pc" :> "boardGet")
               @@ ("leaderboard" :> [k \in 1..n |->
                     ("rank" :> k) @@ BoardEntry(order[k], scores[order[k]])])
               @@ greq[g]]
  /\ UNCHANGED <<now, incidents, idSeq, scores, OutsideGame>>

\* lines 628-645: the caller's own record and the response
LeaderboardGet(g) ==
  /\ greq[g].pc = "boardGet"
  /\ GFinish(g, 200,
       [ leaderboard |-> greq[g].leaderboard,
         user |-> IF greq[g].user \in DOMAIN scores
                  THEN <<BoardEntry(greq[g].user, scores[greq[g].user])>>
                  ELSE <<>> ])
  /\ UNCHANGED <<now, incidents, idSeq, scores, OutsideGame>>

BoardReqIds == {1, 2, 3}
BoardInstants == {1000, 2500}

InitBoard ==
  /\ now = 1000
  /\ idSeq = 2
  /\ incidents = (1 :> GameIncident("warning", "alice", "alice", 1000))
                   @@ (2 :> GameIncident("critical", "alice", "alice", 1000))
  /\ scores = (GLOBAL_SESSION_KEY :>
                 SessionItem(1000 + ROUND_DURATION_MS, 1000, "alice"))
  /\ greq = [g \in BoardReqIds |-> IdleReq]
  /\ Quiet({"http", "classify", "stream", "devices", "alarm", "capture", "oncall"})

NextBoard ==
  \/ Tick(BoardInstants)
  \/ \E g \in BoardReqIds, u \in GameUsers, id \in {1, 2} : GameAckArrive(g, u, id)
  \/ \E g \in BoardReqIds : GameAckCheck(g)
  \/ \E g \in BoardReqIds : GameAckGet(g)
  \/ \E g \in BoardReqIds : GameAckUpdate(g)
  \/ \E g \in BoardReqIds : GameAckScore(g)
  \/ \E g \in BoardReqIds, u \in GameUsers : LeaderboardArrive(g, u)
  \/ \E g \in BoardReqIds : LeaderboardQuery(g)
  \/ \E g \in BoardReqIds : LeaderboardGet(g)

SpecBoard == InitBoard /\ [][NextBoard]_vars

----------------------------------------------------------------------------
(* Claims about the leaderboard *)

\* C16: the leaderboard holds at most 20 score records ordered by cumulative
\* points descending (nobody with more total_points is ranked below somebody
\* with fewer), and the caller's own record comes with it.
C16_LeaderboardByTotalPoints ==
  [][\A g \in DOMAIN greq :
       Leaves(g, "leaderboard", "boardGet") =>
         LET board == greq'[g].body.leaderboard
         IN  /\ greq'[g].status = 200
             /\ Len(board) <= 20
             /\ \A i, j \in DOMAIN board :
                  i < j => board[i].total_points >= board[j].total_points
             /\ greq[g].user \in DOMAIN scores =>
                  /\ greq'[g].body.user # <<>>
                  /\ greq'[g].body.user[1].user_id = greq[g].user]_vars

----------------------------------------------------------------------------
(* incidents.ts: GET /incidents over a store with incidents of two teams *)

ListTeams == {"T1", "T2"}

\* the items of the team-state-index (partition key team_id, sort key state)
\* in one partition
TeamPartition(tid) ==
  {id \in DOMAIN incidents :
     /\ Has(incidents[id], "team_id") /\ Has(incidents[id], "state")
     /\ incidents[id].team_id = tid}

\* lines 22-53: the Query the handler sends for the given query string
\* parameters ("undefined" when the parameter is absent)
ListItems(teamId, state) ==
  IF teamId # "undefined" /\ state # "undefined"
  THEN {id \in TeamPartition(teamId) : incidents[id].state = state}
  ELSE IF teamId # "undefined"
  THEN TeamPartition(teamId)
  ELSE TeamPartition("default")

\* lines 18-55: GET /incidents?team_id=..&state=..
ListIncidents(r, user, teamId, state) ==
  /\ req[r].pc = "idle"
  /\ \A q \in ReqIds : q < r => req[q].pc # "idle"
  /\ req' = [req EXCEPT ![r] =
       [pc |-> "done", op |-> "list", id |-> 0, user |-> user, ts |-> now,
        arg |-> [team_id |-> teamId, state |-> state], arrived |-> "missing",
        status |-> 200, body |-> ListItems(teamId, state)]]
  /\ UNCHANGED <<now, incidents, idSeq, OutsideHttp>>

InitList ==
  /\ now = 1000
  /\ idSeq = 2
  /\ \E t \in ListTeams, st \in States :
       incidents = (1 :> NewIncident("T1", "cpu", "info", "alice", "threshold", 1000))
                     @@ (2 :> SetAttr(AlarmImage("critical", st), "team_id", t))
  /\ req = [r \in ReqIds |-> IdleReq]
  /\ Quiet({"game", "classify", "stream", "devices", "alarm", "capture", "oncall"})

NextList ==
  \/ Tick(ShortInstants)
  \/ \E r \in ReqIds, id \in IncidentIds, u \in Users : AckBegin(r, id, u)
  \/ \E r \in ReqIds : AckUpdate(r)
  \/ \E r \in ReqIds, id \in IncidentIds, u \in Users, n \in Notes :
       ResolveBegin(r, id, u, n)
  \/ \E r \in ReqIds : ResolveUpdate(r)
  \/ \E r \in ReqIds, u \in Users :
       \E t \in ListTeams \cup {"undefined"}, st \in States \cup {"undefined"} :
         ListIncidents(r, u, t, st)

SpecList == InitList /\ [][NextList]_vars

\* the stored incidents that match the supplied filters
Matching(teamId, state) ==
  {id \in DOMAIN incidents :
     /\ teamId # "undefined" => incidents[id].team_id = teamId
     /\ state # "undefined" => incidents[id].state = state}

\* C18: GET /incidents returns exactly the stored incidents that match the
\* supplied filters (state only, team_id only, or both): every returned
\* incident matches and no matching incident is omitted.
C18_ListReturnsExactlyMatching ==
  [][\A r \in ReqIds :
       (/\ Answers(r, "list")
        /\ req'[r].arg.team_id # "undefined" \/ req'[r].arg.state # "undefined") =>
          /\ req'[r].status = 200
          /\ req'[r].body = Matching(req'[r].arg.team_id, req'[r].arg.state)]_vars

----------------------------------------------------------------------------
(* Claims about updates of missing incidents and about the timeline *)

\* C17: an ack, resolve or reassign of an incident id that has no stored
\* record is answered with Not Found (404), not with the generic server error,
\* and creates no incident record.
C17_MissingIncidentNotFound ==
  [][\A r \in ReqIds : \A op \in {"ack", "resolve", "reassign"} :
       (Answers(r, op) /\ req[r].id \notin DOMAIN incidents) =>
          /\ req'[r].status = 404
          /\ incidents' = incidents]_vars

\* the timeline of an item; an item without the attribute has no entries
TimelineOf(item) == IF Has(item, "timeline") THEN item.timeline ELSE <<>>

NonDecreasing(timeline) ==
  \A i, j \in DOMAIN timeline :
    i < j => timeline[i].timestamp <= timeline[j].timestamp

\* C19: whatever the interleaving of concurrent ack, resolve and reassign
\* requests, the timestamps of every incident's timeline are non-decreasing in
\* list order, and every change of an incident's state (a game acknowledgement
\* included) comes with exactly one new timeline entry.
C19_TimelineOrderedOneEntryPerChange ==
  [][\A id \in DOMAIN incidents' :
       /\ NonDecreasing(TimelineOf(incidents'[id]))
       /\ (id \in DOMAIN incidents /\ incidents'[id].state # incidents[id].state) =>
            Len(TimelineOf(incidents'[id])) = Len(TimelineOf(incidents[id])) + 1]_vars

\* the incident handler's three updates, all requests made by one caller,
\* over the store of ingested and game incidents
Caller == "bob"

NextAppend ==
  \/ Tick(ShortInstants)
  \/ \E r \in ReqIds, id \in IncidentIds : AckBegin(r, id, Caller)
  \/ \E r \in ReqIds : AckUpdate(r)
  \/ \E r \in ReqIds, id \in IncidentIds, n \in Notes : ResolveBegin(r, id, Caller, n)
  \/ \E r \in ReqIds : ResolveUpdate(r)
  \/ \E r \in ReqIds, id \in IncidentIds, v \in Users : ReassignBegin(r, id, Caller, v)
  \/ \E r \in ReqIds : ReassignUpdate(r)

SpecAppend == InitStore /\ [][NextAppend]_vars

IsPrefix(old, new) ==
  /\ Len(old) <= Len(new)
  /\ \A i \in DOMAIN old : old[i] = new[i]

\* C20: the timeline is append-only: on every step, and so after every ack,
\* resolve or reassign, each incident is still stored and its previous timeline
\* is a prefix of its new timeline; no entry is removed, reordered or rewritten.
C20_TimelineAppendOnly ==
  [][\A id \in DOMAIN incidents :
       /\ id \in DOMAIN incidents'
       /\ IsPrefix(TimelineOf(incidents[id]), TimelineOf(incidents'[id]))]_vars

\* two of ack, resolve and reassign have been applied to one incident
C20_Witness ==
  \E id \in DOMAIN incidents :
    /\ Len(TimelineOf(incidents[id])) >= 3
    /\ \E r \in ReqIds :
         /\ req[r].pc = "done" /\ req[r].status = 200 /\ req[r].id = id
         /\ req[r].op \in {"ack", "resolve", "reassign"}

----------------------------------------------------------------------------
(* incidents.ts and incident-streams.ts: acknowledgements through the HTTP
   handler, the stream of INCIDENTS_TABLE and the notifier's badge *)

\* lines 92-109 of incidents.ts with the stream of the table: the update and
\* its MODIFY record (old and new image) are committed together
AckCommit(r) ==
  /\ req[r].pc = "update"
  /\ req[r].op = "ack"
  /\ IF CanUpdate(req[r].id)
     THEN LET id == req[r].id
              new == AckUpdateItem(incidents[id], req[r].user, req[r].ts)
          IN  /\ incidents' = [incidents EXCEPT ![id] = new]
              /\ changes' = [changes EXCEPT !.records =
                   Append(@, StreamRecord("MODIFY", {Image(id)},
                                          {SetAttr(new, "incident_id", id)}))]
              /\ Finish(r, 200, "incident")
     ELSE /\ UNCHANGED <<incidents, changes>>
          /\ Finish(r, 500, "Internal server error")
  /\ UNCHANGED oncall
  /\ UNCHANGED <<now, idSeq, devices, gameState, classifyState, streamState, alarmState>>

InitBadge ==
  /\ now = 2500
  /\ idSeq = 2
  /\ \E u \in Users :
       incidents = (1 :> NewIncident("T1", "cpu", "critical", "alice", "threshold", 1000))
                     @@ (2 :> NewIncident("T1", "disk", "warning", u, "threshold", 1000))
  /\ devices = [alice |-> << [device_token |-> "d1", platform |-> "ios"],
                             [device_token |-> "d2", platform |-> "ios"] >>]
  /\ req = [r \in ReqIds |-> IdleReq]
  /\ stream = [pc |-> "idle"]
  /\ pushes = <<>>
  /\ changes = NoChanges
  /\ Quiet({"game", "classify", "alarm", "oncall"})

NextBadge ==
  \/ \E r \in ReqIds, id \in IncidentIds, u \in Users : AckBegin(r, id, u)
  \/ \E r \in ReqIds : AckCommit(r)
  \/ \E n \in 1..MaxBatch : Poll(n)
  \/ StreamRecordStep
  \/ StreamBadge
  \/ StreamSend
  \/ StreamReturn

SpecBadge == InitBadge /\ [][NextBadge]_vars

----------------------------------------------------------------------------
(* Claims about the badge *)

\* the incidents stored in state triggered and assigned to the user
TriggeredAssignedTo(userId) ==
  {id \in DOMAIN incidents :
     /\ Has(incidents[id], "assigned_to")
     /\ incidents[id].assigned_to = userId
     /\ incidents[id].state = "triggered"}

\* the step sends a push
Dispatches == Len(pushes') = Len(pushes) + 1

\* C21: the badge of every push equals the number of incidents that, at the
\* moment the push is dispatched, are stored in state triggered and assigned
\* to the changed incident's assignee.
C21_BadgeIsCountAtDispatch ==
  [][Dispatches =>
       pushes'[Len(pushes')].badge =
         Cardinality(TriggeredAssignedTo(stream.incident.assigned_to))]_vars

----------------------------------------------------------------------------
(* incident-streams.ts: the device loop when the push gateway fails *)

\* the outcomes of a send through the push gateway: the push is handed over,
\* or the gateway is unavailable or times out and the error propagates to
\* the caller
GatewayOutcomes == {"sent", "error"}

\* lines 45-59: the awaited send of one turn of the device loop rejects; the
\* loop has no handler of its own, so the error reaches the catch of the
\* record and the for loop over the records goes on
StreamSendThrows ==
  /\ stream.pc = "send"
  /\ "error" \in GatewayOutcomes
  /\ pushes' = Append(pushes,
       [ device_token |-> Head(stream.devs).device_token, record |-> stream.idx,
         title |-> stream.notification.title, body |-> stream.notification.body,
         sound |-> stream.notification.sound,
         interruptionLevel |-> stream.notification.interruptionLevel,
         badge |-> stream.badge, state |-> stream.incident.state,
         incident_id |-> IF Has(stream.incident, "incident_id")
                         THEN stream.incident.incident_id ELSE "undefined",
         outcome |-> "error" ])
  /\ stream' = NextRecord
  /\ UNCHANGED <<now, incidents, idSeq, devices, OutsideStream>>

NextDelivery ==
  \/ \E batch \in Batches : StreamInvoke(batch)
  \/ StreamRecordStep
  \/ StreamBadge
  \/ StreamSend
  \/ StreamSendThrows
  \/ StreamReturn

SpecDelivery == InitStream /\ [][NextDelivery]_vars

----------------------------------------------------------------------------
(* Claims about delivery failures *)

\* the device loop of the record being handled is left for the next record
LeavesDeviceLoop ==
  /\ stream.pc = "send"
  /\ stream'.pc = "record"
  /\ stream'.idx = stream.idx + 1

\* C22: when the delivery to one device of the assignee fails, the notifier
\* still attempts the delivery to each remaining device: the device loop of a
\* change is only left once every registered device has had an attempt.
C22_FailureDoesNotSkipDevices ==
  [][LeavesDeviceLoop =>
       \A d \in DOMAIN getUserDevices(stream.incident.assigned_to) :
         \E k \in DOMAIN pushes' :
           /\ pushes'[k].record = stream.idx
           /\ pushes'[k].device_token =
                getUserDevices(stream.incident.assigned_to)[d].device_token]_vars

\* the record at hand (there is one) has a notification and an assignee
Notifiable(record) ==
  /\ Notification(record) \notin {NoNotification, Threw}
  /\ Has(parseStateChange(record).incident, "assigned_to")

\* the record at hand raises an error (a TypeError while the notification is
\* built, a Query without a key value), or its assignee has no device
RaisesOrNoDevices ==
  /\ stream.pc = "record"
  /\ stream.idx <= Len(stream.batch)
  /\ LET record == stream.batch[stream.idx]
     IN  \/ Notification(record) = Threw
         \/ /\ Notification(record) # NoNotification
            /\ ~Has(parseStateChange(record).incident, "assigned_to")
         \/ /\ Notifiable(record)
            /\ getUserDevices(parseStateChange(record).incident.assigned_to) = <<>>

\* C23: a change record whose assignee has no registered device, or whose
\* processing raises an error, does not stop the batch: the handler goes on
\* with the next record, it returns only after the last record, and by then
\* every record that has a notification and an assignee with devices has had
\* a push attempt.
C23_BatchGoesOn ==
  [][/\ (RaisesOrNoDevices \/ (stream.pc = "send" /\ Len(pushes') > Len(pushes)
                                 /\ Has(pushes'[Len(pushes')], "outcome"))) =>
          /\ stream'.pc = "record"
          /\ stream'.batch = stream.batch
          /\ stream'.idx = stream.idx + 1
     /\ (stream.pc # "done" /\ stream'.pc = "done") =>
          /\ stream.idx = Len(stream.batch) + 1
          /\ \A j \in DOMAIN stream.batch :
               (/\ Notifiable(stream.batch[j])
                /\ getUserDevices(parseStateChange(stream.batch[j]).incident.assigned_to)
                     # <<>>) =>
                 \E k \in DOMAIN pushes : pushes[k].record = j
    ]_vars

\* the handler has returned from a batch whose first record raised an error
\* and whose second record was pushed
C23_Witness ==
  /\ stream.pc = "done"
  /\ Len(stream.batch) = 2
  /\ Notification(stream.batch[1]) = Threw
  /\ \E k \in DOMAIN pushes : pushes[k].record = 2

----------------------------------------------------------------------------
(* Claims about the order of the pushes *)

\* C24: within a stream batch the pushes go out in the order of the change
\* records: every push for record i is sent before any push for a later
\* record j.
C24_PushesInRecordOrder ==
  \A k, l \in DOMAIN pushes :
    k < l => pushes[k].record <= pushes[l].record

----------------------------------------------------------------------------
(* alarm-handler.ts, game mode: acknowledgements at the bonus thresholds of
   incidents triggered with any severity value *)

\* body.severity of POST /game/trigger: the three known values, none, any other
BodySeverities == {"info", "warning", "critical", "undefined", "banana"}

\* the clock around 2000 ms and 4000 ms after the trigger at 1000
PointsInstants == {1000, 2999, 3000, 4999, 5000, 9000}

PointsReqIds == {1, 2}

InitPoints ==
  /\ now = 1000
  /\ idSeq = 1
  /\ \E sev \in BodySeverities :
       incidents = (1 :> GameIncident(SeverityOf(sev), "alice", "alice", 1000))
  /\ scores = (GLOBAL_SESSION_KEY :>
                 SessionItem(1000 + ROUND_DURATION_MS, 1000, "alice"))
  /\ greq = [g \in PointsReqIds |-> IdleReq]
  /\ Quiet({"http", "classify", "stream", "devices", "alarm", "capture", "oncall"})

NextPoints ==
  \/ Tick(PointsInstants)
  \/ \E g \in PointsReqIds, u \in GameUsers : GameAckArrive(g, u, 1)
  \/ \E g \in PointsReqIds : GameAckCheck(g)
  \/ \E g \in PointsReqIds : GameAckGet(g)
  \/ \E g \in PointsReqIds : GameAckUpdate(g)
  \/ \E g \in PointsReqIds : GameAckScore(g)

SpecPoints == InitPoints /\ [][NextPoints]_vars

----------------------------------------------------------------------------
(* Claims about the points *)

\* Math.round of n / 2
RoundHalf(n) == (n + 1) \div 2

\* round(10 * m * b), m by severity, b by the time elapsed since the trigger
AwardFor(severity, elapsed) ==
  LET m == CASE severity = "info" -> 1
             [] severity = "warning" -> 2
             [] severity = "critical" -> 3
             [] OTHER -> 2
      twiceB == IF elapsed < 2000 THEN 4 ELSE IF elapsed < 4000 THEN 3 ELSE 2
  IN  RoundHalf(10 * m * twiceB)

\* C25: a successful game acknowledgement awards round(10 * m * b) points,
\* m being 1, 2, 3 for severity info, warning, critical and 2 for any other
\* value, b being 2 below 2000 ms between the incident's creation and the
\* ack, 1.5 below 4000 ms and 1 otherwise; the award is greater than 0.
C25_PointsFormula ==
  [][\A g \in DOMAIN greq :
       (Leaves(g, "ack", "ackScore") /\ greq'[g].body.success) =>
         /\ greq'[g].body.points =
              AwardFor(incidents[greq[g].id].severity,
                       incidents[greq[g].id].acked_at - incidents[greq[g].id].created_at)
         /\ greq'[g].body.points > 0]_vars

\* an incident triggered with an unknown severity has been acknowledged
\* exactly 2000 ms after its creation, for 30 points
C25_Witness ==
  \E g \in DOMAIN greq :
    /\ greq[g].pc = "done" /\ greq[g].op = "ack"
    /\ greq[g].body = [success |-> TRUE, points |-> 30]
    /\ incidents[1].severity = "banana"
    /\ incidents[1].acked_at - incidents[1].created_at = 2000

----------------------------------------------------------------------------
(* Claims about the scores *)

\* the answered acks that returned success: true
SuccessfulAcks ==
  {g \in DOMAIN greq :
     /\ greq[g].pc = "done" /\ greq[g].op = "ack" /\ greq[g].status = 200
     /\ greq[g].body.success}

RECURSIVE SumPoints(_)
SumPoints(S) ==
  IF S = {} THEN 0
  ELSE LET g == CHOOSE x \in S : TRUE
       IN  greq[g].body.points + SumPoints(S \ {g})

ScoreAttr(u, a) ==
  IF u \in DOMAIN scores /\ Has(scores[u], a) THEN scores[u][a] ELSE 0

\* C26: each player's total_points is the sum of the points returned by the
\* player's successful acks and total_acks is their number (so an ack that
\* returns success: false adds nothing), and no game incident is behind more
\* than one successful ack.
C26_ScoresAreSumsOfAwards ==
  /\ \A u \in GameUsers :
       LET mine == {g \in SuccessfulAcks : greq[g].user = u}
       IN  /\ ScoreAttr(u, "total_points") = SumPoints(mine)
           /\ ScoreAttr(u, "total_acks") = Cardinality(mine)
  /\ \A g, h \in SuccessfulAcks : g # h => greq[g].id # greq[h].id

\* one player has won two incidents and another player's ack of one of them
\* has come back with success: false
C26_Witness ==
  \E g, h \in SuccessfulAcks : \E l \in DOMAIN greq :
    /\ g # h /\ greq[g].user = greq[h].user
    /\ ScoreAttr(greq[g].user, "total_points") = greq[g].body.points + greq[h].body.points
    /\ greq[l].pc = "done" /\ greq[l].op = "ack" /\ greq[l].body = TooSlow
    /\ greq[l].user # greq[g].user

----------------------------------------------------------------------------
(* alarm-handler.ts, game mode: requests that arrive after the round has
   expired without POST /game/end, while a trigger of the round is still
   between its session check and its PutCommand *)

ExpiredEnd == 1000 + ROUND_DURATION_MS

\* a POST /game/trigger that passed the session check of line 437 at 1000
TriggerInFlight ==
  [ pc |-> "triggerPut", op |-> "trigger", user |-> "alice", id |-> 0, title |-> 8,
    sev |-> "undefined", ctx |-> "gate", ts |-> 1000 ]

ExpiryReqIds == {1, 2, 3}
LateReqIds == ExpiryReqIds \ {1}

InitExpiry ==
  /\ now = 61500
  /\ idSeq = 1
  /\ incidents = (1 :> GameIncident("warning", "alice", "alice", 1000))
  /\ scores = (GLOBAL_SESSION_KEY :> SessionItem(ExpiredEnd, 1000, "alice"))
  /\ greq = [g \in ExpiryReqIds |-> IF g = 1 THEN TriggerInFlight ELSE IdleReq]
  /\ Quiet({"http", "classify", "stream", "devices", "alarm", "capture", "oncall"})

NextExpiry ==
  \/ \E g \in LateReqIds : StartArrive(g, "alice")
  \/ \E g \in LateReqIds : EndArrive(g, "alice")
  \/ \E g \in LateReqIds, b \in TriggerBodies : TriggerArrive(g, "alice", b)
  \/ \E g \in LateReqIds, id \in IncidentIds : GameAckArrive(g, "bob@example.com", id)
  \/ \E g \in ExpiryReqIds : GateRaw(g)
  \/ \E g \in ExpiryReqIds : EndDelete(g)
  \/ \E g \in ExpiryReqIds : CleanupScan(g)
  \/ \E g \in ExpiryReqIds : CleanupDelete(g)
  \/ \E g \in ExpiryReqIds : StartCheck(g)
  \/ \E g \in ExpiryReqIds : StartPut(g)
  \/ \E g \in ExpiryReqIds : EndCheck(g)
  \/ \E g \in ExpiryReqIds : TriggerCheck(g)
  \/ \E g \in ExpiryReqIds : TriggerPut(g)
  \/ \E g \in ExpiryReqIds : GameAckCheck(g)
  \/ \E g \in ExpiryReqIds : GameAckGet(g)
  \/ \E g \in ExpiryReqIds : GameAckUpdate(g)
  \/ \E g \in ExpiryReqIds : GameAckScore(g)

SpecExpiry == InitExpiry /\ [][NextExpiry]_vars

----------------------------------------------------------------------------
(* Claims about the expiry of a round *)

\* a session record whose end time has passed
ExpiredSessionRecord ==
  HasSessionEnd /\ now > scores[GLOBAL_SESSION_KEY].session_ends_at

\* the game incidents triggered in the round that has expired
ExpiredRoundIncidents ==
  {id \in GameIncidentIds : incidents[id].created_at <= ExpiredEnd}

\* C27: once a game request that arrived after the expiry of the round has
\* completed, no expired session record and none of that round's game
\* incidents remain, although POST /game/end was never called.
C27_ExpiredRoundIsCleanedUp ==
  \A g \in LateReqIds :
    greq[g].pc = "done" =>
      /\ ~ExpiredSessionRecord
      /\ ExpiredRoundIncidents = {}

----------------------------------------------------------------------------
(* alarm-handler.ts, game mode: POST /game/trigger with any severity in the
   request body *)

SeverityBodies == {[title |-> 8, severity |-> sev] : sev \in BodySeverities}

InitSeverity ==
  /\ now = 1000
  /\ idSeq = 0
  /\ incidents = <<>>
  /\ scores = (GLOBAL_SESSION_KEY :>
                 SessionItem(1000 + ROUND_DURATION_MS, 1000, "alice"))
  /\ greq = [g \in GameReqIds |-> IdleReq]
  /\ Quiet({"http", "classify", "stream", "devices", "alarm", "capture", "oncall"})

NextSeverity ==
  \/ \E g \in GameReqIds, u \in GameUsers, b \in SeverityBodies : TriggerArrive(g, u, b)
  \/ \E g \in GameReqIds : TriggerCheck(g)
  \/ \E g \in GameReqIds : TriggerPut(g)

SpecSeverity == InitSeverity /\ [][NextSeverity]_vars

\* C28: every incident record in the incident store has severity critical,
\* warning or info, whatever the body of the POST /game/trigger that wrote it.
C28_SeverityIsKnown ==
  \A id \in DOMAIN incidents :
    /\ Has(incidents[id], "severity")
    /\ incidents[id].severity \in Severities

\* the step is a delete of the expired-session auto-cleanup of request g that
\* removes the record of a session that has not expired, or a game incident
\* triggered in the session that is running
AutoCleanupRemovesActive(g) ==
  /\ greq[g].ctx = "gate"
  /\ getGlobalSession.active
  /\ \/ Leaves(g, greq[g].op, "endDelete")
     \/ /\ greq[g].pc = "delete"
        /\ \E id \in DOMAIN incidents \ DOMAIN incidents' :
             incidents[id].created_at >= scores[GLOBAL_SESSION_KEY].started_at

\* C29: the expired-session auto-cleanup never removes an active session: when
\* a POST /game/start succeeds while another request is between its 'session
\* inactive' check and its re-read of the record, that request's cleanup
\* leaves the new session record and the incidents triggered in it in place.
C29_AutoCleanupSparesActiveSession ==
  [][\A g \in DOMAIN greq :
       greq[g].pc \in {"endDelete", "delete"} => ~AutoCleanupRemovesActive(g)]_vars

----------------------------------------------------------------------------
(* types/index.ts getUserIdFromEvent and the first lines of the five HTTP
   handlers (incidents, schedules, teams, devices, game) *)

AuthHandlers == {"incidents", "schedules", "teams", "devices", "game"}

\* an object with one property
Obj(k, v) == k :> v

\* the events the API gateway can hand over: every prefix of the path
\* requestContext.authorizer.jwt.claims.sub may be missing
AuthSubs == {"alice", "bob@example.com"}
AuthEvents ==
  { <<>>,
    Obj("requestContext", <<>>),
    Obj("requestContext", Obj("authorizer", <<>>)),
    Obj("requestContext", Obj("authorizer", Obj("jwt", <<>>))),
    Obj("requestContext", Obj("authorizer", Obj("jwt", Obj("claims", <<>>)))) }
  \cup { Obj("requestContext", Obj("authorizer", Obj("jwt", Obj("claims", Obj("sub", u)))))
           : u \in AuthSubs }

\* the default a missing claim would get if the function did not return null
getUserIdFromEvent_Anonymous(event) ==
  IF /\ Has(event, "requestContext")
     /\ Has(event.requestContext, "authorizer")
     /\ Has(event.requestContext.authorizer, "jwt")
     /\ Has(event.requestContext.authorizer.jwt, "claims")
     /\ Has(event.requestContext.authorizer.jwt.claims, "sub")
  THEN event.requestContext.authorizer.jwt.claims.sub
  ELSE "anonymous"

\* event.requestContext?.authorizer?.jwt?.claims?.sub ?? null
getUserIdFromEvent(event) ==
  IF /\ Has(event, "requestContext")
     /\ Has(event.requestContext, "authorizer")
     /\ Has(event.requestContext.authorizer, "jwt")
     /\ Has(event.requestContext.authorizer.jwt, "claims")
     /\ Has(event.requestContext.authorizer.jwt.claims, "sub")
  THEN event.requestContext.authorizer.jwt.claims.sub
  ELSE "null"

\* !userId
NoUser(userId) == userId \in {"null", ""}

\* the first lines of each handler: the caller is read from the event, and a
\* request without one is answered 401 before the try block with the routes
AuthEnter(r, h, event) ==
  /\ req[r].pc = "idle"
  /\ \A q \in ReqIds : q < r => req[q].pc # "idle"
  /\ LET userId == getUserIdFromEvent(event)
     IN  req' = [req EXCEPT ![r] =
           IF NoUser(userId)
           THEN [pc |-> "done", handler |-> h, event |-> event, commands |-> 0,
                 status |-> 401, body |-> [error |-> "Unauthorized"]]
           ELSE [pc |-> "route", handler |-> h, event |-> event, commands |-> 0,
                 user |-> userId]]
  /\ UNCHANGED <<now, incidents, idSeq, OutsideHttp>>

\* the routes of the handler: some send commands to the tables, some (GET
\* /game/config, an unknown path) send none
AuthRoute(r) ==
  /\ req[r].pc = "route"
  /\ \E n \in {0, 1}, status \in {200, 404} :
       req' = [req EXCEPT ![r] = ("pc" :> "done") @@ ("commands" :> n)
                                   @@ ("status" :> status) @@ req[r]]
  /\ UNCHANGED <<now, incidents, idSeq, OutsideHttp>>

InitAuth ==
  /\ now = 1000
  /\ idSeq = 1
  /\ incidents = (1 :> NewIncident("T1", "cpu", "info", "alice", "threshold", 1000))
  /\ req = [r \in ReqIds |-> IdleReq]
  /\ Quiet({"game", "classify", "stream", "devices", "alarm", "capture", "oncall"})

NextAuth ==
  \/ \E r \in ReqIds, h \in AuthHandlers, event \in AuthEvents : AuthEnter(r, h, event)
  \/ \E r \in ReqIds : AuthRoute(r)

SpecAuth == InitAuth /\ [][NextAuth]_vars

----------------------------------------------------------------------------
(* Claims about requests without a caller identity *)

\* the event carries no JWT sub claim
NoSubClaim(event) ==
  ~(/\ Has(event, "requestContext")
    /\ Has(event.requestContext, "authorizer")
    /\ Has(event.requestContext.authorizer, "jwt")
    /\ Has(event.requestContext.authorizer.jwt, "claims")
    /\ Has(event.requestContext.authorizer.jwt.claims, "sub"))

\* C30: each of the five HTTP handlers answers a request that carries no
\* caller identity with 401 and sends no command to any table for it.
C30_NoIdentityIs401 ==
  \A r \in ReqIds :
    (req[r].pc # "idle" /\ NoSubClaim(req[r].event)) =>
      /\ req[r].pc = "done"
      /\ req[r].status = 401
      /\ req[r].commands = 0

\* the game handler has answered 401 to a request whose token carries no claims
C30_Witness ==
  \E r \in ReqIds :
    /\ req[r].pc = "done" /\ req[r].status = 401
    /\ req[r].handler = "game"
    /\ req[r].event = Obj("requestContext", Obj("authorizer", Obj("jwt", <<>>)))

====
